---------------------------- MODULE Spec2Model ----------------------------
(***************************************************************************)
(* A model of aiodav, an asynchronous WebDAV client.                       *)
(*                                                                         *)
(*   - strings are sequences of one-character strings; the path model     *)
(*     (aiodav/urn.py) and the library conversions it uses (quote,         *)
(*     unquote, urlsplit, re.sub) are operators computed as the code       *)
(*     computes them;                                                      *)
(*   - the operations of aiodav/client.py are actions; every request an    *)
(*     operation sends is appended to `wire` together with the status      *)
(*     the server answered, and the server's answers are inputs;           *)
(*   - the chunk producer of upload_to is a small state machine.           *)
(***************************************************************************)
EXTENDS Integers, Sequences, FiniteSets, TLC

(***************************************************************************)
(* Strings                                                                 *)
(***************************************************************************)
SEP == "/"

\* The characters urllib.parse.quote never encodes (letters, digits, "_.-~")
\* that occur in the model, plus the separator (quote's default safe="/").
Unreserved == {"x", "y", ".", "_", "2", "3", "5", "F", "R", "S", "U", SEP}

\* The hexadecimal digits that occur in the model's strings.
HexDigits == {"2", "3", "5", "F"}

\* The character a percent triplet %h1h2 stands for.  Only the triplets that
\* decode to printable ASCII are in the table: the model's inputs contain no
\* other triplet.
HexPairChar(h1, h2) ==
    CASE h1 = "2" /\ h2 = "2" -> "\""
      [] h1 = "2" /\ h2 = "3" -> "#"
      [] h1 = "2" /\ h2 = "5" -> "%"
      [] h1 = "2" /\ h2 = "F" -> "/"
      [] h1 = "3" /\ h2 = "2" -> "2"
      [] h1 = "3" /\ h2 = "3" -> "3"
      [] h1 = "3" /\ h2 = "5" -> "5"
      [] h1 = "3" /\ h2 = "F" -> "?"
      [] h1 = "5" /\ h2 = "2" -> "R"
      [] h1 = "5" /\ h2 = "3" -> "S"
      [] h1 = "5" /\ h2 = "5" -> "U"
      [] h1 = "5" /\ h2 = "F" -> "_"

\* urllib.parse.quote of one character (safe = "/").
quoteChar(c) ==
    CASE c \in Unreserved -> <<c>>
      [] c = "%"  -> <<"%", "2", "5">>
      [] c = "?"  -> <<"%", "3", "F">>
      [] c = "#"  -> <<"%", "2", "3">>
      [] c = "\"" -> <<"%", "2", "2">>

RECURSIVE quote(_)
\* urllib.parse.quote(s): every character outside the unreserved set and "/"
\* becomes its percent triplet; a "%" already in s is encoded again.
quote(s) ==
    IF s = <<>> THEN <<>> ELSE quoteChar(Head(s)) \o quote(Tail(s))

RECURSIVE unquote(_)
\* urllib.parse.unquote(s): every "%" followed by two hexadecimal digits is
\* replaced by the character it stands for; any other "%" is kept.
unquote(s) ==
    IF s = <<>> THEN <<>>
    ELSE IF /\ Head(s) = "%"
            /\ Len(s) >= 3
            /\ s[2] \in HexDigits
            /\ s[3] \in HexDigits
         THEN <<HexPairChar(s[2], s[3])>> \o unquote(SubSeq(s, 4, Len(s)))
         ELSE <<Head(s)>> \o unquote(Tail(s))

\* The number of leading "." characters of s.
RECURSIVE DotRun(_)
DotRun(s) ==
    IF s # <<>> /\ Head(s) = "." THEN 1 + DotRun(Tail(s)) ELSE 0

RECURSIVE subDotSegments(_)
\* re.sub("/\.+/", "/", s): non-overlapping matches, leftmost first; the
\* scan resumes after the separator that closes a match.
subDotSegments(s) ==
    IF s = <<>> THEN <<>>
    ELSE LET k == DotRun(Tail(s)) IN
         IF /\ Head(s) = SEP
            /\ k >= 1
            /\ Len(s) >= k + 2
            /\ s[k + 2] = SEP
         THEN <<SEP>> \o subDotSegments(SubSeq(s, k + 3, Len(s)))
         ELSE <<Head(s)>> \o subDotSegments(Tail(s))

RECURSIVE subSeparators(_)
\* re.sub("/+", "/", s), which is also re.sub("/{2,}", "/", s): every run of
\* separators becomes one separator.
subSeparators(s) ==
    IF s = <<>> THEN <<>>
    ELSE IF Head(s) = SEP /\ Len(s) >= 2 /\ s[2] = SEP
         THEN subSeparators(Tail(s))
         ELSE <<Head(s)>> \o subSeparators(Tail(s))

startswith(s, c) == s # <<>> /\ s[1] = c
endswith(s, c) == s # <<>> /\ s[Len(s)] = c

\* The index of the first character of s, from index i on, that is in D;
\* Len(s) + 1 when there is none.
RECURSIVE FirstOf(_, _, _)
FirstOf(s, i, D) ==
    IF i > Len(s) THEN Len(s) + 1
    ELSE IF s[i] \in D THEN i ELSE FirstOf(s, i + 1, D)

\* urllib.parse.urlsplit(url).path for a url without a scheme: a leading "//"
\* opens a network location that runs to the next "/", "?" or "#"; the path
\* then ends before the first "#" (fragment) or "?" (query).
urlsplit_path(url) ==
    LET rest == IF Len(url) >= 2 /\ url[1] = SEP /\ url[2] = SEP
                THEN SubSeq(url, FirstOf(url, 3, {SEP, "?", "#"}), Len(url))
                ELSE url
    IN SubSeq(rest, 1, FirstOf(rest, 1, {"?", "#"}) - 1)

\* str.split(sep): the pieces between the separators, as a sequence.
RECURSIVE split(_)
split(s) ==
    LET i == FirstOf(s, 1, {SEP}) IN
    IF i > Len(s) THEN <<s>>
    ELSE <<SubSeq(s, 1, i - 1)>> \o split(SubSeq(s, i + 1, Len(s)))

\* sep.join(parts)
RECURSIVE join(_)
join(parts) ==
    IF parts = <<>> THEN <<>>
    ELSE IF Len(parts) = 1 THEN parts[1]
    ELSE parts[1] \o <<SEP>> \o join(Tail(parts))

\* s.count(sep, 0, -1): the separators of s, its last character excluded.
RECURSIVE count(_)
count(s) ==
    IF s = <<>> THEN 0
    ELSE (IF Head(s) = SEP THEN 1 ELSE 0) + count(Tail(s))

(***************************************************************************)
(* aiodav/urn.py: a Urn is represented by its field _path.                  *)
(***************************************************************************)
\* Urn without the substitution of the runs of separators.
Urn_no_collapse(p, directory) ==
    LET q  == subDotSegments(quote(p))
        q1 == IF startswith(q, SEP) THEN q ELSE <<SEP>> \o q
    IN IF directory /\ ~endswith(q1, SEP) THEN q1 \o <<SEP>> ELSE q1

\* Urn adding the trailing separator whatever the directory flag is.
Urn_always_directory(p, directory) ==
    LET q  == subSeparators(subDotSegments(quote(p)))
        q1 == IF startswith(q, SEP) THEN q ELSE <<SEP>> \o q
    IN IF ~endswith(q1, SEP) THEN q1 \o <<SEP>> ELSE q1

Urn(p, directory) ==
    LET q  == subSeparators(subDotSegments(quote(p)))
        q1 == IF startswith(q, SEP) THEN q ELSE <<SEP>> \o q
    IN IF directory /\ ~endswith(q1, SEP) THEN q1 \o <<SEP>> ELSE q1

path(u) == unquote(u)

Urn_quote(u) == u

filename(u) ==
    LET path_split == split(u)
        n == Len(path_split)
    IN unquote(IF path_split[n] = <<>>
               THEN path_split[n - 1] \o <<SEP>>
               ELSE path_split[n])

nesting_level(u) == count(SubSeq(u, 1, Len(u) - 1))

parent(u) ==
    LET path_split == split(u)
        nl == nesting_level(u)
        par == IF nl # 1 THEN join(SubSeq(path_split, 1, nl)) ELSE <<SEP>>
    IN IF ~endswith(par, SEP) THEN unquote(par \o <<SEP>>) ELSE unquote(par)

\* is_dir taking no path for a directory.
is_dir_never(u) == FALSE

is_dir(u) == u[Len(u)] = SEP

normalize_path(p) ==
    LET result == subSeparators(p)
    IN IF Len(result) < 1 \/ result[Len(result)] # SEP
       THEN result
       ELSE SubSeq(result, 1, Len(result) - 1)

\* compare_path without the decoding of the href.
compare_path_no_unquote(path_a, href) ==
    LET unqouted_path == <<SEP>> \o urlsplit_path(href)
    IN normalize_path(path_a) = normalize_path(unqouted_path)

compare_path(path_a, href) ==
    LET unqouted_path == <<SEP>> \o unquote(urlsplit_path(href))
    IN normalize_path(path_a) = normalize_path(unqouted_path)

(***************************************************************************)
(* aiodav/utils.py: a multistatus body is either malformed or a sequence    *)
(* of response elements, each with the text of its href and its resource    *)
(* type: "none" (no resourcetype element), "plain" or "collection".         *)
(***************************************************************************)
NoText == [read |-> FALSE, wellformed |-> FALSE, responses |-> <<>>]
Malformed == [read |-> TRUE, wellformed |-> FALSE, responses |-> <<>>]
Multistatus(rs) == [read |-> TRUE, wellformed |-> TRUE, responses |-> rs]

\* WebDavXmlUtils.parse_get_list_response: one Urn and flag for each response
\* element; the empty list for a malformed body.
parse_get_list_response(content) ==
    IF ~content.wellformed THEN <<>>
    ELSE [i \in 1..Len(content.responses) |->
            LET r == content.responses[i]
                href == <<SEP>> \o unquote(urlsplit_path(r.href))
            IN Urn(href, r.rtype = "collection")]

\* WebDavXmlUtils.parse_get_list_info_response: the fields `path` and `isdir`
\* of each info; the other fields are the server's text, passed through.
parse_get_list_info_response(content) ==
    IF ~content.wellformed THEN <<>>
    ELSE [i \in 1..Len(content.responses) |->
            LET r == content.responses[i]
            IN [path |-> unquote(urlsplit_path(r.href)),
                isdir |-> r.rtype = "collection"]]

\* s begins with the string pre.
startswithSeq(s, pre) == Len(s) >= Len(pre) /\ SubSeq(s, 1, Len(pre)) = pre

\* The loop of extract_response_for_path comparing the href as it is only.
RECURSIVE FirstMatch_raw_only(_, _, _, _)
FirstMatch_raw_only(rs, i, n_path, prefix) ==
    IF i > Len(rs) THEN 0
    ELSE IF compare_path(n_path, rs[i].href) THEN i
    ELSE FirstMatch_raw_only(rs, i + 1, n_path, prefix)

\* The loop of WebDavXmlUtils.extract_response_for_path: the index of the
\* first response whose href matches n_path, as it is or with the prefix
\* stripped; 0 when there is none.
RECURSIVE FirstMatch(_, _, _, _)
FirstMatch(rs, i, n_path, prefix) ==
    IF i > Len(rs) THEN 0
    ELSE LET href == rs[i].href
             href_without_prefix ==
                 IF startswithSeq(href, prefix)
                 THEN SubSeq(href, Len(prefix) + 1, Len(href))
                 ELSE href
         IN IF compare_path(n_path, href) \/ compare_path(n_path, href_without_prefix)
            THEN i
            ELSE FirstMatch(rs, i + 1, n_path, prefix)

\* WebDavXmlUtils.extract_response_for_path: the index of the response for
\* p, or the error raised.
extract_response_for_path(content, p, prefix) ==
    IF ~content.wellformed
    THEN [kind |-> "raise", value |-> 0, error |-> "MethodNotSupported", code |-> 0]
    ELSE LET i == FirstMatch(content.responses, 1, normalize_path(p), prefix)
         IN IF i = 0
            THEN [kind |-> "raise", value |-> 0,
                  error |-> "RemoteResourceNotFound", code |-> 0]
            ELSE [kind |-> "return", value |-> i, error |-> "", code |-> 0]

\* WebDavXmlUtils.parse_info_response: the info of the response for p, which
\* the model represents by the index of that response.
parse_info_response(content, p, prefix) ==
    extract_response_for_path(content, p, prefix)

\* WebDavXmlUtils.parse_is_dir_response
parse_is_dir_response(content, p, prefix) ==
    LET response == extract_response_for_path(content, p, prefix) IN
    IF response.kind = "raise" THEN response
    ELSE LET resource_type == content.responses[response.value].rtype IN
         IF resource_type = "none"
         THEN [kind |-> "raise", value |-> 0, error |-> "MethodNotSupported", code |-> 0]
         ELSE [kind |-> "return", value |-> (resource_type = "collection"),
               error |-> "", code |-> 0]

(***************************************************************************)
(* aiodav/client.py: the client, the wire and the server's answers.          *)
(***************************************************************************)
VARIABLES
    auth,        \* session.auth is set: the client was built with login and password
    root,        \* Client._root, the encoded root directory with no trailing separator
    chunk_size,  \* Client._chunk_size
    op,          \* the operation called last and its arguments
    wire,        \* the requests the operation has sent, in order, each with its answer
    text,        \* the response body the operation has read
    events,      \* what the chunk producer of an upload did, in order
    result,      \* how the operation ended: a returned value or a raised error
    transfer,    \* the transfer loop of an operation whose progress callback suspends
    resource_urn \* Resource.urn of the handle the caller holds, when it holds one

\* What the operations of Client leave as it is.
config == <<auth, root, chunk_size, resource_urn>>
vars == <<auth, root, chunk_size, op, wire, text, events, result, transfer, resource_urn>>

\* DEFAULT_REQUESTS with the methods of move and copy exchanged.
DEFAULT_REQUESTS_exchanged(action) ==
    CASE action = "options"      -> "OPTIONS"
      [] action = "download"     -> "GET"
      [] action = "upload"       -> "PUT"
      [] action = "copy"         -> "MOVE"
      [] action = "move"         -> "COPY"
      [] action = "mkdir"        -> "MKCOL"
      [] action = "clean"        -> "DELETE"
      [] action = "check"        -> "HEAD"
      [] action = "list"         -> "PROPFIND"
      [] action = "free"         -> "PROPFIND"
      [] action = "info"         -> "PROPFIND"
      [] action = "publish"      -> "PROPPATCH"
      [] action = "unpublish"    -> "PROPPATCH"
      [] action = "published"    -> "PROPPATCH"
      [] action = "get_property" -> "PROPFIND"
      [] action = "set_property" -> "PROPPATCH"

\* Client.DEFAULT_REQUESTS
DEFAULT_REQUESTS(action) ==
    CASE action = "options"      -> "OPTIONS"
      [] action = "download"     -> "GET"
      [] action = "upload"       -> "PUT"
      [] action = "copy"         -> "COPY"
      [] action = "move"         -> "MOVE"
      [] action = "mkdir"        -> "MKCOL"
      [] action = "clean"        -> "DELETE"
      [] action = "check"        -> "HEAD"
      [] action = "list"         -> "PROPFIND"
      [] action = "free"         -> "PROPFIND"
      [] action = "info"         -> "PROPFIND"
      [] action = "publish"      -> "PROPPATCH"
      [] action = "unpublish"    -> "PROPPATCH"
      [] action = "published"    -> "PROPPATCH"
      [] action = "get_property" -> "PROPFIND"
      [] action = "set_property" -> "PROPPATCH"

\* DEFAULT_HTTP_HEADER with a Depth header for copy too.
DEFAULT_HTTP_HEADER_Depth_copy(action) ==
    IF action \in {"list", "info", "get_property", "set_property", "copy"} THEN "1"
    ELSE IF action = "free" THEN "0"
    ELSE ""

\* The Depth header of Client.DEFAULT_HTTP_HEADER; "" when the action has none.
DEFAULT_HTTP_HEADER_Depth(action) ==
    IF action \in {"list", "info", "get_property", "set_property"} THEN "1"
    ELSE IF action = "free" THEN "0"
    ELSE ""

\* What a request carries besides its method and path: the kind of its data
\* argument and the headers the operations set ("" or <<>> when absent).
NoExtra == [data |-> "none", Destination |-> <<>>, Overwrite |-> "", Depth |-> ""]

\* Client._get_headers: the action's fixed headers, overridden by headers_ext.
get_headers(action, headers_ext) ==
    [headers_ext EXCEPT !.Depth = IF headers_ext.Depth # "" THEN headers_ext.Depth
                                  ELSE DEFAULT_HTTP_HEADER_Depth(action)]

\* The status codes a server answers with in the model: success codes, the
\* three codes _execute_request names, and two other error codes.
Statuses == {200, 201, 204, 403, 404, 405, 500, 507}

\* What session.request ends in: a response with a status, or a transport error.
Response(st) == [kind |-> "response", status |-> st]
ClientConnectionError == [kind |-> "ClientConnectionError", status |-> 0]
ClientResponseError == [kind |-> "ClientResponseError", status |-> 0]
Answers ==
    {Response(st) : st \in Statuses} \cup {ClientConnectionError, ClientResponseError}

\* What the GET of the hostname that precedes a request of an authenticated
\* session ends in; its response is not looked at.
AuthAnswers == {Response(200), ClientConnectionError}

Return(v) == [kind |-> "return", value |-> v, error |-> "", code |-> 0]
Raise(e) == [kind |-> "raise", value |-> 0, error |-> e, code |-> 0]
RaiseCode(e, c) == [kind |-> "raise", value |-> 0, error |-> e, code |-> c]
NoResult == [kind |-> "none", value |-> 0, error |-> "", code |-> 0]

\* The response of the GET of the hostname is not looked at.
Unchecked == [kind |-> "unchecked", value |-> 0, error |-> "", code |-> 0]

\* One request as the wire saw it, with what _execute_request made of its
\* answer.
Sent(method, p, headers, ans, outcome) ==
    [method |-> method, path |-> p, headers |-> headers, answer |-> ans,
     outcome |-> outcome]

\* Client._get_url without the hostname.
get_url(p) == root \o p

\* Client.get_full_path
get_full_path(u) == root \o path(u)

\* execute_request without its check for 405.
execute_request_no405(action, p, ans) ==
    IF ans.kind = "ClientConnectionError" THEN Raise("NoConnection")
    ELSE IF ans.kind = "ClientResponseError" THEN Raise("ConnectionException")
    ELSE IF ans.status = 507 THEN Raise("NotEnoughSpace")
    ELSE IF ans.status = 404 THEN Raise("RemoteResourceNotFound")
    ELSE IF ans.status >= 400 THEN RaiseCode("ResponseErrorCode", ans.status)
    ELSE Return(ans.status)

\* execute_request without its check for 404.
execute_request_no404(action, p, ans) ==
    IF ans.kind = "ClientConnectionError" THEN Raise("NoConnection")
    ELSE IF ans.kind = "ClientResponseError" THEN Raise("ConnectionException")
    ELSE IF ans.status = 507 THEN Raise("NotEnoughSpace")
    ELSE IF ans.status = 405 THEN Raise("MethodNotSupported")
    ELSE IF ans.status >= 400 THEN RaiseCode("ResponseErrorCode", ans.status)
    ELSE Return(ans.status)

\* Client._execute_request from the answer on: the status checks and the
\* except clauses.
execute_request(action, p, ans) ==
    IF ans.kind = "ClientConnectionError" THEN Raise("NoConnection")
    ELSE IF ans.kind = "ClientResponseError" THEN Raise("ConnectionException")
    ELSE IF ans.status = 507 THEN Raise("NotEnoughSpace")
    ELSE IF ans.status = 404 THEN Raise("RemoteResourceNotFound")
    ELSE IF ans.status = 405 THEN Raise("MethodNotSupported")
    ELSE IF ans.status >= 400 THEN RaiseCode("ResponseErrorCode", ans.status)
    ELSE Return(ans.status)

\* The operation ends: its requests and its outcome are what the caller sees.
Done(w, t, r) == wire' = w /\ text' = t /\ result' = r

\* Client._execute_request as a step of an operation that has sent w so far:
\* the GET of the hostname when the session is authenticated, then the
\* request, then K on the requests sent and the outcome.
ExecuteRequest(w, action, p, headers_ext, K(_, _)) ==
    \E a \in (IF auth THEN AuthAnswers ELSE {Response(0)}) :
        LET w0 == IF auth THEN Append(w, Sent("GET", <<>>, NoExtra, a, Unchecked))
                  ELSE w
        IN
        IF auth /\ a.kind = "ClientConnectionError"
        THEN K(w0, Raise("NoConnection"))
        ELSE \E ans \in Answers :
                LET r == execute_request(action, p, ans) IN
                K(Append(w0, Sent(DEFAULT_REQUESTS(action), get_url(p),
                                  get_headers(action, headers_ext), ans, r)), r)

\* response.text(): the body of a PROPFIND response, the server's choice.
ReadText(Bodies, K(_)) == \E t \in Bodies : K(t)

\* exists taking every error of its HEAD for absence.
exists_swallows_all(r) ==
    IF r.kind = "raise" THEN Return(FALSE) ELSE Return(r.value = 200)

\* exists taking every response that is no error for existence.
exists_any_success(r) ==
    IF r.kind = "raise" /\ r.error \in {"RemoteResourceNotFound", "ResponseErrorCode"}
    THEN Return(FALSE)
    ELSE IF r.kind = "raise" THEN r
    ELSE Return(TRUE)

\* exists taking a 405 for absence as well.
exists_swallows_405(r) ==
    IF r.kind = "raise" /\ r.error \in {"RemoteResourceNotFound", "ResponseErrorCode",
                                       "MethodNotSupported"}
    THEN Return(FALSE)
    ELSE IF r.kind = "raise" THEN r
    ELSE Return(r.value = 200)

\* Client.exists from the outcome of its HEAD on.
exists(r) ==
    IF r.kind = "raise" /\ r.error \in {"RemoteResourceNotFound", "ResponseErrorCode"}
    THEN Return(FALSE)
    ELSE IF r.kind = "raise" THEN r
    ELSE Return(r.value = 200)

\* Client.exists as a step of an operation.
ExistsStep(w, p, K(_, _)) ==
    ExecuteRequest(w, "check", Urn_quote(Urn(p, FALSE)), NoExtra,
                   LAMBDA w1, r : K(w1, exists(r)))

\* require without the test of what the probe returned.
require_unchecked(e, error) ==
    IF e.kind = "raise" THEN e ELSE Return(TRUE)

\* require raising the same error whatever is missing.
require_one_error(e, error) ==
    IF e.kind = "raise" THEN e
    ELSE IF ~e.value THEN Raise("RemoteResourceNotFound")
    ELSE Return(TRUE)

\* `if not (await self.exists(p)): raise error`: the outcome of the
\* precondition, given the outcome of the probe.
require(e, error) ==
    IF e.kind = "raise" THEN e
    ELSE IF ~e.value THEN Raise(error)
    ELSE Return(TRUE)

\* An operation goes on with K after a step that ended in r, or ends with
\* the error r raised.
Then(w, t, r, K(_)) ==
    IF r.kind = "raise" THEN Done(w, t, r) ELSE K(r.value)

RemotePaths ==
    { <<"/">>, <<"/", "x">>, <<"/", "x", "/">>, <<"/", "x", "/", "y">>, <<"y">> }

\* No transfer loop is suspended.
NoTransfer == [pc |-> "idle", kind |-> "none", current |-> 0, total |-> 0, left |-> 0,
               chunk |-> 0, running |-> 0, outcome |-> NoResult]

\* The caller holds no Resource: no Urn has an empty _path.
NoHandle == <<>>

\* No operation is in progress and none has left its outcome to be taken.
NoCall == [name |-> "none", path |-> <<>>, dest |-> <<>>, flag |-> FALSE, opt |-> "",
           size |-> 0, buffer_size |-> 0]

\* The caller calls an operation of the client; calls do not overlap.
Call(name, p, dest, flag, opt) ==
    /\ op = NoCall
    /\ op' = [name |-> name, path |-> p, dest |-> dest, flag |-> flag, opt |-> opt,
              size |-> 0, buffer_size |-> 0]

\* The caller calls an upload of a source of `size` bytes.
CallUpload(name, p, progress, size, buffer_size) ==
    /\ op = NoCall
    /\ op' = [name |-> name, path |-> p, dest |-> <<>>, flag |-> progress, opt |-> "",
              size |-> size, buffer_size |-> buffer_size]

\* The caller has taken the outcome of the last call.
Forget ==
    /\ op # NoCall
    /\ result # NoResult
    /\ op' = NoCall
    /\ wire' = <<>>
    /\ text' = NoText
    /\ events' = <<>>
    /\ result' = NoResult
    /\ transfer' = NoTransfer
    /\ UNCHANGED config

\* Client.exists
Exists ==
    /\ op = NoCall
    /\ \E p \in RemotePaths :
            /\ Call("exists", p, <<>>, FALSE, "")
            /\ ExistsStep(<<>>, p, LAMBDA w, r : Done(w, NoText, r))
            /\ UNCHANGED <<config, events, transfer>>

\* create_directory without the except clause for MethodNotSupported.
create_directory_no_except(r) ==
    IF r.kind = "raise" THEN r ELSE Return(r.value \in {200, 201})

\* create_directory's return value from the outcome of its MKCOL on.
create_directory(r) ==
    IF r.kind = "raise" /\ r.error = "MethodNotSupported" THEN Return(TRUE)
    ELSE IF r.kind = "raise" THEN r
    ELSE Return(r.value \in {200, 201})

\* Client.create_directory
CreateDirectory ==
    /\ op = NoCall
    /\ \E p \in RemotePaths :
            LET directory_urn == Urn(p, TRUE) IN
            /\ Call("create_directory", p, <<>>, FALSE, "")
            /\ ExistsStep(<<>>, parent(directory_urn), LAMBDA w1, e :
                 Then(w1, NoText, require(e, "RemoteParentNotFound"), LAMBDA v :
                   ExecuteRequest(w1, "mkdir", Urn_quote(directory_urn), NoExtra,
                     LAMBDA w2, r : Done(w2, NoText, create_directory(r)))))
            /\ UNCHANGED <<config, events, transfer>>

\* Client.move
Move ==
    /\ op = NoCall
    /\ \E source \in RemotePaths, destination \in RemotePaths, overwrite \in BOOLEAN :
            LET urn_from == Urn(source, FALSE)
                urn_to == Urn(destination, FALSE)
                headers == [NoExtra EXCEPT
                              !.Destination = get_url(Urn_quote(urn_to)),
                              !.Overwrite = IF overwrite THEN "T" ELSE "F"]
            IN
            /\ Call("move", source, destination, overwrite, "")
            /\ ExistsStep(<<>>, path(urn_from), LAMBDA w1, e1 :
                 Then(w1, NoText, require(e1, "RemoteResourceNotFound"), LAMBDA v1 :
                   ExistsStep(w1, parent(urn_to), LAMBDA w2, e2 :
                     Then(w2, NoText, require(e2, "RemoteParentNotFound"), LAMBDA v2 :
                       ExecuteRequest(w2, "move", Urn_quote(urn_from), headers,
                         LAMBDA w3, r :
                           Done(w3, NoText,
                                IF r.kind = "raise" THEN r ELSE Return("None")))))))
            /\ UNCHANGED <<config, events, transfer>>

\* The path component of Client._hostname (urlparse(hostname).path).
hostname_path == <<>>

\* The hrefs of the response elements of the multistatus bodies the server
\* answers is_directory, info and copy with, and those bodies.
MaxEntries == 2
InfoHrefs == { <<"/", "x">>, <<"/", "R", "/", "x", "/">> }
InfoResponses == [href : InfoHrefs, rtype : {"none", "plain", "collection"}]
SeqsUpTo(S, n) == UNION {[1..k -> S] : k \in 0..n}
InfoBodies == {Malformed} \cup {Multistatus(rs) : rs \in SeqsUpTo(InfoResponses, MaxEntries)}

InfoPaths == { <<"/", "x">>, <<"/", "x", "/">>, <<"y">> }

\* Client._check_remote_resource as a step of an operation.
CheckRemoteResourceStep(w, p, urn, K(_, _)) ==
    ExistsStep(w, path(urn), LAMBDA w1, e1 :
      IF e1.kind = "raise" THEN K(w1, e1)
      ELSE IF e1.value THEN K(w1, Return(TRUE))
      ELSE ExistsStep(w1, path(Urn(p, TRUE)), LAMBDA w2, e2 :
             K(w2, require(e2, "RemoteResourceNotFound"))))

\* Client.is_directory as a step of an operation whose PROPFIND the server
\* answers with one of Bodies: K on the requests sent, the body read and the
\* outcome.
IsDirectoryStepOn(Bodies, w, p, K(_, _, _)) ==
    LET urn == Urn(p, FALSE)
        parent_urn == Urn(parent(urn), FALSE)
    IN CheckRemoteResourceStep(w, p, urn, LAMBDA w1, c :
         IF c.kind = "raise" THEN K(w1, NoText, c)
         ELSE ExecuteRequest(w1, "info", Urn_quote(parent_urn), NoExtra, LAMBDA w2, r :
                IF r.kind = "raise" THEN K(w2, NoText, r)
                ELSE ReadText(Bodies, LAMBDA t :
                       K(w2, t, parse_is_dir_response(t, get_full_path(urn),
                                                      hostname_path)))))

\* Client.is_directory as a step of an operation.
IsDirectoryStep(w, p, K(_, _, _)) == IsDirectoryStepOn(InfoBodies, w, p, K)

\* Client.is_directory
IsDirectory ==
    /\ op = NoCall
    /\ \E p \in InfoPaths :
            /\ Call("is_directory", p, <<>>, FALSE, "")
            /\ IsDirectoryStep(<<>>, p, LAMBDA w, t, r : Done(w, t, r))
            /\ UNCHANGED <<config, events, transfer>>

\* Client.info
Info ==
    /\ op = NoCall
    /\ \E p \in InfoPaths :
            LET urn == Urn(p, FALSE) IN
            /\ Call("info", p, <<>>, FALSE, "")
            /\ CheckRemoteResourceStep(<<>>, p, urn, LAMBDA w1, c :
                 Then(w1, NoText, c, LAMBDA v :
                   ExecuteRequest(w1, "info", Urn_quote(urn), NoExtra, LAMBDA w2, r :
                     Then(w2, NoText, r, LAMBDA st :
                       ReadText(InfoBodies, LAMBDA t :
                         Done(w2, t, parse_info_response(t, get_full_path(urn),
                                                         hostname_path)))))))
            /\ UNCHANGED <<config, events, transfer>>

CopySources == { <<"/", "x">> }
CopyDestinations == { <<"/", "y">>, <<"/", "x", "/", "y">> }
Depths == {"1"}

\* Client.copy
Copy ==
    /\ op = NoCall
    /\ \E source \in CopySources, destination \in CopyDestinations, depth \in Depths :
            LET urn_from == Urn(source, FALSE)
                urn_to == Urn(destination, FALSE)
                headers == [NoExtra EXCEPT !.Destination = get_url(Urn_quote(urn_to))]
            IN
            /\ Call("copy", source, destination, FALSE, depth)
            /\ ExistsStep(<<>>, path(urn_from), LAMBDA w1, e1 :
                 Then(w1, NoText, require(e1, "RemoteResourceNotFound"), LAMBDA v1 :
                   ExistsStep(w1, parent(urn_to), LAMBDA w2, e2 :
                     Then(w2, NoText, require(e2, "RemoteParentNotFound"), LAMBDA v2 :
                       IsDirectoryStep(w2, path(urn_from), LAMBDA w3, t, d :
                         Then(w3, t, d, LAMBDA isdir :
                           ExecuteRequest(w3, "copy", Urn_quote(urn_from),
                             IF isdir THEN [headers EXCEPT !.Depth = depth] ELSE headers,
                             LAMBDA w4, r :
                               Done(w4, t, IF r.kind = "raise" THEN r
                                           ELSE Return("None")))))))))
            /\ UNCHANGED <<config, events, transfer>>

\* The hrefs of the response elements of the bodies the server answers list
\* with: the directories listed with and without the root, a child, and
\* names with characters that percent-encoding or a URL parser treats
\* specially.
ListHrefs ==
    { <<"/", "x", "/">>,
      <<"/", "x", "/", "y">>,
      <<"/", "R", "/", "x", "/">>,
      <<"/", "x", "%", "3", "F", "/">>,
      <<"/", "%", "2", "5", "2", "5", "/">>,
      <<"/", "%", "2", "3">> }
ListResponses == [href : ListHrefs, rtype : {"plain", "collection"}]
ListBodies == {Malformed} \cup {Multistatus(rs) : rs \in SeqsUpTo(ListResponses, MaxEntries)}
ListPaths ==
    { <<"/">>, <<>>, <<"/", "x">>, <<"/", "x", "?">>, <<"/", "%", "2", "5">> }

\* The indices i of ps, from i on, with compare_path(n_path, ps[i]) false.
RECURSIVE NotSelf(_, _, _)
NotSelf(ps, i, n_path) ==
    IF i > Len(ps) THEN <<>>
    ELSE (IF compare_path(n_path, ps[i]) = FALSE THEN <<i>> ELSE <<>>)
            \o NotSelf(ps, i + 1, n_path)

\* The two list comprehensions of Client.list: the names (or infos) returned
\* and, for each, the index of the response element it comes from.
list_filter(content, n_path, get_info) ==
    LET urns == parse_get_list_response(content)
        subfiles == parse_get_list_info_response(content)
        kept == IF get_info
                THEN NotSelf([i \in 1..Len(subfiles) |-> subfiles[i].path], 1, n_path)
                ELSE NotSelf([i \in 1..Len(urns) |-> path(urns[i])], 1, n_path)
    IN [kept |-> kept,
        items |-> IF get_info
                  THEN [k \in 1..Len(kept) |-> subfiles[kept[k]].path]
                  ELSE [k \in 1..Len(kept) |-> filename(urns[kept[k]])]]

\* list probing the root like any other directory.
list_probes_always(directory_urn) == TRUE

\* Client.list probes the directory unless it is the root.
list_probes(directory_urn) == path(directory_urn) # <<SEP>>

\* Client.list
List ==
    /\ op = NoCall
    /\ \E p \in ListPaths, get_info \in BOOLEAN :
            LET directory_urn == Urn(p, TRUE)
                n_path == normalize_path(get_full_path(directory_urn))
                Listing(w) ==
                    ExecuteRequest(w, "list", Urn_quote(directory_urn), NoExtra, LAMBDA w2, r :
                      Then(w2, NoText, r, LAMBDA st :
                        ReadText(ListBodies, LAMBDA t :
                          Done(w2, t, Return(list_filter(t, n_path, get_info))))))
            IN
            /\ Call("list", p, <<>>, get_info, "")
            /\ IF list_probes(directory_urn)
               THEN ExistsStep(<<>>, path(directory_urn), LAMBDA w1, e :
                      Then(w1, NoText, require(e, "RemoteResourceNotFound"), LAMBDA v :
                        Listing(w1)))
               ELSE Listing(<<>>)
            /\ UNCHANGED <<config, events, transfer>>

\* The sizes of the sources uploaded and the buffer_size arguments.
MaxSize == 3

Min(a, b) == IF a < b THEN a ELSE b

Progress(current, total) == [ev |-> "progress", current |-> current, total |-> total]
Read(len) == [ev |-> "read", current |-> len, total |-> 0]
Yield(len) == [ev |-> "yield", current |-> len, total |-> 0]
Stop == [ev |-> "stop", current |-> 0, total |-> 0]

\* file_sender_loop calling progress before it adds the chunk to current.
RECURSIVE file_sender_loop_stale(_, _, _, _)
file_sender_loop_stale(current, left, buffer_size, pulls) ==
    IF pulls = 0 THEN <<>>
    ELSE IF ~(current < buffer_size) THEN <<Stop>>
    ELSE LET chunk == Min(chunk_size, left) IN
         IF chunk = 0 THEN <<Read(0), Stop>>
         ELSE <<Read(chunk), Progress(current, buffer_size), Yield(chunk)>>
                \o file_sender_loop_stale(current + chunk, left - chunk,
                                          buffer_size, pulls - 1)

\* The while loop of file_sender, resumed `pulls` times by the transport
\* with `current` bytes yielded so far, from a source with `left` bytes left.
RECURSIVE file_sender_loop(_, _, _, _)
file_sender_loop(current, left, buffer_size, pulls) ==
    IF pulls = 0 THEN <<>>
    ELSE IF ~(current < buffer_size) THEN <<Stop>>
    ELSE LET chunk == Min(chunk_size, left) IN
         IF chunk = 0 THEN <<Read(0), Stop>>
         ELSE <<Read(chunk), Progress(current + chunk, buffer_size), Yield(chunk)>>
                \o file_sender_loop(current + chunk, left - chunk, buffer_size, pulls - 1)

\* Client.upload_to.file_sender: what the generator does when the transport
\* asks it for a chunk `pulls` times; nothing runs before the first time.
file_sender(size, buffer_size, pulls) ==
    IF pulls = 0 THEN <<>>
    ELSE <<Progress(0, buffer_size)>> \o file_sender_loop(0, size, buffer_size, pulls)

\* The data argument of upload_to's request.
upload_data(progress) == IF progress THEN "file_sender" ELSE "buffer"

\* Client.upload_to as a step of an operation.  The transport asks the
\* generator for chunks while it sends the PUT; how often is its choice.
UploadToStep(w, p, size, buffer_size, progress, K(_, _, _)) ==
    LET urn == Urn(p, FALSE) IN
    IF is_dir(urn) THEN K(w, <<>>, Raise("OptionNotValid"))
    ELSE ExistsStep(w, parent(urn), LAMBDA w1, e :
           LET c == require(e, "RemoteParentNotFound") IN
           IF c.kind = "raise" THEN K(w1, <<>>, c)
           ELSE ExecuteRequest(w1, "upload", Urn_quote(urn),
                  [NoExtra EXCEPT !.data = upload_data(progress)], LAMBDA w2, r :
                    \E pulls \in (IF progress /\ w2[Len(w2)].method = "PUT"
                                  THEN 0..(MaxSize + 1) ELSE {0}) :
                       K(w2, file_sender(size, buffer_size, pulls),
                         IF r.kind = "raise" THEN r ELSE Return("None"))))

\* Client.upload_to
UploadTo ==
    /\ op = NoCall
    /\ \E p \in RemotePaths, size \in 0..MaxSize, buffer_size \in 0..MaxSize,
       progress \in BOOLEAN :
            /\ CallUpload("upload_to", p, progress, size, buffer_size)
            /\ UploadToStep(<<>>, p, size, buffer_size, progress, LAMBDA w, ev, r :
                 Done(w, NoText, r) /\ events' = ev)
            /\ UNCHANGED <<config, transfer>>

\* Client.upload_file: the size of the local file is the buffer_size.
UploadFile ==
    /\ op = NoCall
    /\ \E remote_path \in RemotePaths, size \in 0..MaxSize, progress \in BOOLEAN :
            /\ CallUpload("upload_file", remote_path, progress, size, size)
            /\ UploadToStep(<<>>, remote_path, size, size, progress, LAMBDA w, ev, r :
                 Done(w, NoText, r) /\ events' = ev)
            /\ UNCHANGED <<config, transfer>>

(***************************************************************************)
(* The local file system the transfers of trees read: what a local path     *)
(* denotes.  The entries of a directory are in os.listdir order.            *)
(***************************************************************************)
Missing == [kind |-> "missing", size |-> 0, entries |-> <<>>]
File(size) == [kind |-> "file", size |-> size, entries |-> <<>>]
Dir(entries) == [kind |-> "dir", size |-> 0, entries |-> entries]

\* os.path.isdir and os.path.exists
isdir(local) == local.kind = "dir"
os_path_exists(local) == local.kind # "missing"

LocalFiles == {File(1)}
LocalLeaves == LocalFiles \cup {Dir(<<>>), Dir(<<File(1)>>)}
LocalDirs == {Dir(es) : es \in SeqsUpTo(LocalLeaves, MaxEntries)}
LocalPaths == {Missing} \cup LocalFiles \cup LocalDirs

\* A call of a coroutine function whose result is not awaited: the coroutine
\* object is created and dropped, and its body never runs.
NeverAwaited(kind) == [ev |-> kind, current |-> 0, total |-> 0]

\* Client.upload: the nested transfer it dispatches to is called without
\* await, so upload does nothing but create the coroutine and return None.
upload(remote_path, local) ==
    IF isdir(local) THEN <<NeverAwaited("upload_directory")>>
    ELSE <<NeverAwaited("upload_file")>>

\* The caller calls a transfer between remote_path and the local path that
\* denotes `local`.
CallLocal(name, remote_path, local, progress) ==
    /\ op = NoCall
    /\ op' = [name |-> name, path |-> remote_path, dest |-> <<>>, flag |-> progress,
              opt |-> "", size |-> local.size, buffer_size |-> local.size,
              local |-> local]

\* Client.upload
Upload ==
    /\ op = NoCall
    /\ \E remote_path \in RemotePaths, local \in LocalPaths, progress \in BOOLEAN :
          /\ CallLocal("upload", remote_path, local, progress)
          /\ Done(<<>>, NoText, Return("None"))
          /\ events' = upload(remote_path, local)
          /\ UNCHANGED <<config, transfer>>

\* The for loop of Client.upload_directory over os.listdir(local_path): what
\* the awaited calls of upload do, entry by entry.
\* os.listdir(local_path)[k - 1]: the name of the k-th entry of a directory.
resource_name(k) == <<<<"x">>, <<"y">>, <<"_">>>>[k]

RECURSIVE upload_entries(_, _, _)
upload_entries(urn, entries, k) ==
    IF k > Len(entries) THEN <<>>
    ELSE upload(path(urn) \o resource_name(k), entries[k])
            \o upload_entries(urn, entries, k + 1)

\* The local checks of Client.upload_directory, in the order of the code:
\* the error raised, or "" when they pass.
upload_directory_checks(urn, local) ==
    IF ~is_dir(urn) THEN "OptionNotValid"
    ELSE IF ~isdir(local) THEN "OptionNotValid"
    ELSE IF ~os_path_exists(local) THEN "LocalResourceNotFound"
    ELSE ""

UploadDirectoryPaths == { <<"/", "x">>, <<"/", "x", "/", "y">> }

\* Client.upload_directory
UploadDirectory ==
    /\ op = NoCall
    /\ \E remote_path \in UploadDirectoryPaths, local \in LocalPaths :
          LET urn == Urn(remote_path, TRUE)
              check == upload_directory_checks(urn, local)
              Create(w) ==
                  ExistsStep(w, parent(Urn(remote_path, TRUE)), LAMBDA w1, e :
                    Then(w1, NoText, require(e, "RemoteParentNotFound"), LAMBDA v :
                      ExecuteRequest(w1, "mkdir", Urn_quote(Urn(remote_path, TRUE)), NoExtra,
                        LAMBDA w2, r :
                          LET c == create_directory(r) IN
                          Done(w2, NoText, IF c.kind = "raise" THEN c ELSE Return("None")))))
          IN
          /\ CallLocal("upload_directory", remote_path, local, FALSE)
          /\ IF check # ""
             THEN Done(<<>>, NoText, Raise(check))
             ELSE ExistsStep(<<>>, path(urn), LAMBDA w1, e :
                    Then(w1, NoText, e, LAMBDA found :
                      IF found
                      THEN ExecuteRequest(w1, "clean", Urn_quote(Urn(path(urn), FALSE)),
                             NoExtra, LAMBDA w2, r :
                               Then(w2, NoText, r, LAMBDA st : Create(w2)))
                      ELSE Create(w1)))
          \* the loop over os.listdir(local_path) runs when nothing was raised
          /\ events' = IF result'.kind = "return" THEN upload_entries(urn, local.entries, 1)
                       ELSE <<>>
          /\ UNCHANGED <<config, transfer>>

(***************************************************************************)
(* Downloads.  The response to the GET has a content-length header and a    *)
(* body that response.content.iter_chunked(chunk_size) hands over as blocks *)
(* of 1..chunk_size bytes.                                                   *)
(***************************************************************************)
\* The response has no content-length header.
NoContentLength == -1
ContentLengths == {NoContentLength} \cup (0..MaxSize)

RECURSIVE Sum(_)
Sum(ns) == IF ns = <<>> THEN 0 ELSE Head(ns) + Sum(Tail(ns))

\* The sequences of blocks iter_chunked can produce for bodies of at most
\* MaxSize bytes.
BlockSeqs == {bs \in SeqsUpTo(1..chunk_size, MaxSize) : Sum(bs) <= MaxSize}

\* The response to a GET as download_to reads it.
Body(content_length, blocks) ==
    [read |-> TRUE, wellformed |-> FALSE, responses |-> <<>>,
     content_length |-> content_length, blocks |-> blocks]
DownloadBodies == {Body(cl, bs) : cl \in ContentLengths, bs \in BlockSeqs}

Write(len) == [ev |-> "write", current |-> len, total |-> 0]

\* download_loop calling progress before it adds the block to current.
RECURSIVE download_loop_stale(_, _, _, _, _)
download_loop_stale(blocks, k, current, total, progress) ==
    IF k > Len(blocks) THEN <<>>
    ELSE <<Write(blocks[k])>>
            \o (IF progress THEN <<Progress(current, total)>> ELSE <<>>)
            \o download_loop_stale(blocks, k + 1, current + blocks[k], total, progress)

\* The async for loop of download_to from the k-th block on, with `current`
\* bytes written so far.
RECURSIVE download_loop(_, _, _, _, _)
download_loop(blocks, k, current, total, progress) ==
    IF k > Len(blocks) THEN <<>>
    ELSE <<Write(blocks[k])>>
            \o (IF progress THEN <<Progress(current + blocks[k], total)>> ELSE <<>>)
            \o download_loop(blocks, k + 1, current + blocks[k], total, progress)

\* download_to from the response on: what it does to the buffer and the
\* callback.
download_to(body, progress) ==
    (IF progress THEN <<Progress(0, body.content_length)>> ELSE <<>>)
        \o download_loop(body.blocks, 1, 0, body.content_length, progress)

\* download without the test that the target is no directory.
download_checks_no_isdir(d) ==
    IF d.kind = "raise" THEN d ELSE Return(TRUE)

\* `if (await self.is_directory(urn.path())): raise OptionNotValid`: the
\* outcome of the check, given the outcome of is_directory.
download_checks(d) ==
    IF d.kind = "raise" THEN d
    ELSE IF d.value THEN Raise("OptionNotValid")
    ELSE Return(TRUE)

DownloadPaths == { <<"/", "x">>, <<"/", "x", "/">> }

\* The bodies the server answers the PROPFIND of a download's is_directory
\* with: malformed, or one response element.
DownloadInfoBodies == {Malformed} \cup {Multistatus(<<r>>) : r \in InfoResponses}

\* The checks and the GET that download_iter and download_to share: K on the
\* requests sent, the body read and the outcome.
DownloadStep(w, p, K(_, _, _)) ==
    LET urn == Urn(p, FALSE) IN
    IsDirectoryStepOn(DownloadInfoBodies, w, path(urn), LAMBDA w1, t, d :
      LET c == download_checks(d) IN
      IF c.kind = "raise" THEN K(w1, t, c)
      ELSE ExistsStep(w1, path(urn), LAMBDA w2, e :
             LET f == require(e, "RemoteResourceNotFound") IN
             IF f.kind = "raise" THEN K(w2, t, f)
             ELSE ExecuteRequest(w2, "download", Urn_quote(urn), NoExtra,
                    LAMBDA w3, r : K(w3, t, r))))

\* Client.download_iter
DownloadIter ==
    /\ op = NoCall
    /\ \E p \in DownloadPaths :
          /\ Call("download_iter", p, <<>>, FALSE, "")
          /\ DownloadStep(<<>>, p, LAMBDA w, t, r :
               Done(w, t, IF r.kind = "raise" THEN r ELSE Return("iter_chunked")))
          /\ UNCHANGED <<config, events, transfer>>

\* Client.download_to as a step of an operation whose GET the server answers
\* with one of Bodies, with a callback that does not suspend or none: K on the requests sent, the body read, what was done
\* to the buffer and the callback, and the outcome.
DownloadToStep(Bodies, w, p, progress, K(_, _, _, _)) ==
    DownloadStep(w, p, LAMBDA w1, t, r :
      IF r.kind = "raise" THEN K(w1, t, <<>>, r)
      ELSE \E body \in Bodies :
             IF body.content_length = NoContentLength
             THEN K(w1, body, <<>>, Raise("KeyError"))
             ELSE K(w1, body, download_to(body, progress), Return("None")))

\* Client.download_to
DownloadTo ==
    /\ op = NoCall
    /\ \E p \in DownloadPaths, progress \in BOOLEAN :
          /\ Call("download_to", p, <<>>, progress, "")
          /\ DownloadToStep(DownloadBodies, <<>>, p, progress, LAMBDA w, t, ev, r :
               Done(w, t, r) /\ events' = ev)
          /\ UNCHANGED <<config, transfer>>

\* What the downloads do to the local path.
Opened == [ev |-> "open", current |-> 0, total |-> 0]
Rmtree == [ev |-> "rmtree", current |-> 0, total |-> 0]
Makedirs == [ev |-> "makedirs", current |-> 0, total |-> 0]

\* The local_path arguments of the downloads: only what the path denotes
\* matters to them.
DownloadLocals == {Missing, Dir(<<>>)} \cup LocalFiles

\* The responses to the GET of a download to a local file: no content-length,
\* an empty body, a body of one block.
FileBodies == {Body(NoContentLength, <<>>), Body(0, <<>>), Body(1, <<1>>)}

\* Client.download_file as a step of an operation: the local file is opened
\* for writing, then download_to runs.
DownloadFileStep(w, remote_path, local, progress, K(_, _, _, _)) ==
    IF isdir(local) THEN K(w, NoText, <<>>, Raise("IsADirectoryError"))
    ELSE DownloadToStep(FileBodies, w, remote_path, progress, LAMBDA w1, t, ev, r :
           K(w1, t, <<Opened>> \o ev, r))

\* Client.download_file
DownloadFile ==
    /\ op = NoCall
    /\ \E remote_path \in DownloadPaths, local \in DownloadLocals, progress \in BOOLEAN :
          /\ CallLocal("download_file", remote_path, local, progress)
          /\ DownloadFileStep(<<>>, remote_path, local, progress, LAMBDA w, t, ev, r :
               Done(w, t, r) /\ events' = ev)
          /\ UNCHANGED <<config, transfer>>

\* download_directory clearing the local path before it looks at the
\* outcome of is_directory.
download_directory_clears_first(d, local) ==
    LET cleared == IF os_path_exists(local) /\ local.kind # "file"
                   THEN <<Rmtree>> ELSE <<>>
    IN IF d.kind = "raise" THEN [events |-> cleared, result |-> d]
       ELSE IF ~d.value THEN [events |-> cleared, result |-> Raise("OptionNotValid")]
       ELSE IF local.kind = "file"
       THEN [events |-> <<>>, result |-> Raise("NotADirectoryError")]
       ELSE [events |-> cleared \o <<Makedirs, NeverAwaited("list")>>,
             result |-> Raise("TypeError")]

\* download_directory from its is_directory check on: the local path is
\* cleared and created, then `async for ... in self.list(...)` is given the
\* coroutine that the call of list returns, which is no asynchronous iterator.
download_directory(d, local) ==
    IF d.kind = "raise" THEN [events |-> <<>>, result |-> d]
    ELSE IF ~d.value THEN [events |-> <<>>, result |-> Raise("OptionNotValid")]
    ELSE IF local.kind = "file"
    THEN [events |-> <<>>, result |-> Raise("NotADirectoryError")]
    ELSE [events |-> (IF os_path_exists(local) THEN <<Rmtree>> ELSE <<>>)
                        \o <<Makedirs, NeverAwaited("list")>>,
          result |-> Raise("TypeError")]

\* Client.download_directory as a step of an operation.
DownloadDirectoryStep(w, remote_path, local, K(_, _, _, _)) ==
    LET urn == Urn(remote_path, TRUE) IN
    IsDirectoryStepOn(DownloadInfoBodies, w, path(urn), LAMBDA w1, t, d :
      LET out == download_directory(d, local) IN
      K(w1, t, out.events, out.result))

\* Client.download_directory
DownloadDirectory ==
    /\ op = NoCall
    /\ \E remote_path \in DownloadPaths, local \in DownloadLocals :
          /\ CallLocal("download_directory", remote_path, local, FALSE)
          /\ DownloadDirectoryStep(<<>>, remote_path, local, LAMBDA w, t, ev, r :
               Done(w, t, r) /\ events' = ev)
          /\ UNCHANGED <<config, transfer>>

\* Client.download
Download ==
    /\ op = NoCall
    /\ \E remote_path \in DownloadPaths, local \in DownloadLocals, progress \in BOOLEAN :
          LET urn == Urn(remote_path, FALSE) IN
          /\ CallLocal("download", remote_path, local, progress)
          /\ IsDirectoryStepOn(DownloadInfoBodies, <<>>, path(urn), LAMBDA w1, t, d :
               IF d.kind = "raise" THEN Done(w1, t, d) /\ events' = <<>>
               ELSE IF d.value
               THEN DownloadDirectoryStep(w1, remote_path, local, LAMBDA w2, t2, ev, r :
                      Done(w2, t2, r) /\ events' = ev)
               ELSE DownloadFileStep(w1, remote_path, local, progress,
                      LAMBDA w2, t2, ev, r : Done(w2, t2, r) /\ events' = ev))
          /\ UNCHANGED <<config, transfer>>

(***************************************************************************)
(* Transfers with a progress callback that is a coroutine function.  The    *)
(* callback suspends, so a call of it is two steps, its start and its       *)
(* completion, and the transfer loop is a coroutine with a position:        *)
(*   "call"   about to call the callback                                    *)
(*   "await"  suspended in `await progress(...)`                            *)
(*   "loop"   at the head of its loop, about to read                        *)
(*   "yield"  about to hand a chunk to the transport (upload only)          *)
(*   "done"   ended                                                         *)
(***************************************************************************)
Completed == [ev |-> "completed", current |-> 0, total |-> 0]

\* The transfer loop going on without waiting for the callback.
resumes_at_once(t) == TRUE

\* `await progress(current, total, *progress_args)`: the loop resumes when
\* the call it awaits has completed.
resumes(t) == t.running = 0

\* Client.download_to with a callback that suspends, up to its loop.  The
\* body has content-length bytes.
DownloadToAsync ==
    /\ op = NoCall
    /\ \E p \in DownloadPaths, n \in 0..MaxSize :
          /\ Call("download_to", p, <<>>, TRUE, "async")
          /\ DownloadStep(<<>>, p, LAMBDA w, t, r :
               IF r.kind = "raise"
               THEN Done(w, t, r) /\ UNCHANGED transfer
               ELSE /\ wire' = w
                    /\ text' = Body(n, <<>>)
                    /\ result' = NoResult
                    /\ transfer' = [pc |-> "call", kind |-> "download_to", current |-> 0,
                                    total |-> n, left |-> n, chunk |-> 0, running |-> 0,
                                    outcome |-> Return("None")])
          /\ UNCHANGED <<config, events>>

AsyncUploadPaths == { <<"/", "x">>, <<"/", "x", "/">> }

\* Client.upload_to with a callback that suspends, up to the first time the
\* transport asks file_sender for a chunk.  The answer the PUT gets is the
\* outcome of upload_to when the transport has taken the last chunk.
UploadToAsync ==
    /\ op = NoCall
    /\ \E p \in AsyncUploadPaths, size \in 0..MaxSize, buffer_size \in 0..MaxSize :
          LET urn == Urn(p, FALSE) IN
          /\ CallUpload("upload_to", p, TRUE, size, buffer_size)
          /\ IF is_dir(urn) THEN Done(<<>>, NoText, Raise("OptionNotValid"))
                                 /\ UNCHANGED transfer
             ELSE ExistsStep(<<>>, parent(urn), LAMBDA w1, e :
                    LET c == require(e, "RemoteParentNotFound") IN
                    IF c.kind = "raise" THEN Done(w1, NoText, c) /\ UNCHANGED transfer
                    ELSE ExecuteRequest(w1, "upload", Urn_quote(urn),
                           [NoExtra EXCEPT !.data = upload_data(TRUE)], LAMBDA w2, r :
                             LET out == IF r.kind = "raise" THEN r ELSE Return("None") IN
                             IF w2[Len(w2)].method # "PUT"
                             THEN Done(w2, NoText, out) /\ UNCHANGED transfer
                             ELSE /\ wire' = w2
                                  /\ text' = NoText
                                  /\ result' = NoResult
                                  /\ transfer' = [pc |-> "call", kind |-> "upload_to",
                                                  current |-> 0, total |-> buffer_size,
                                                  left |-> size, chunk |-> 0,
                                                  running |-> 0, outcome |-> out]))
          /\ UNCHANGED <<config, events>>

\* The loop calls the callback: the callback starts and the loop awaits it.
CallProgress ==
    /\ transfer.pc = "call"
    /\ events' = Append(events, Progress(transfer.current, transfer.total))
    /\ transfer' = [transfer EXCEPT !.pc = "await", !.running = @ + 1]
    /\ UNCHANGED <<config, op, wire, text, result>>

\* A call of the callback that has started completes.
ProgressCompletes ==
    /\ transfer.running > 0
    /\ events' = Append(events, Completed)
    /\ transfer' = [transfer EXCEPT !.running = @ - 1]
    /\ UNCHANGED <<config, op, wire, text, result>>

\* The loop resumes after `await progress(...)`: file_sender goes on to its
\* yield when it has a chunk, either loop otherwise goes to its head.
Resume ==
    /\ transfer.pc = "await"
    /\ resumes(transfer)
    /\ transfer' = [transfer EXCEPT
                      !.pc = IF transfer.kind = "upload_to" /\ transfer.chunk > 0
                             THEN "yield" ELSE "loop"]
    /\ UNCHANGED <<config, op, wire, text, events, result>>

\* file_sender yields the chunk; the transport sends it and asks for the next.
YieldChunk ==
    /\ transfer.pc = "yield"
    /\ events' = Append(events, Yield(transfer.chunk))
    /\ transfer' = [transfer EXCEPT !.pc = "loop", !.chunk = 0]
    /\ UNCHANGED <<config, op, wire, text, result>>

\* The loop of download_to takes the next block of the body and writes it,
\* or ends with the body.
ReadBlockDownload ==
    /\ transfer.pc = "loop"
    /\ transfer.kind = "download_to"
    /\ IF transfer.left = 0
       THEN /\ transfer' = [transfer EXCEPT !.pc = "done"]
            /\ result' = transfer.outcome
            /\ UNCHANGED events
       ELSE \E len \in 1..Min(chunk_size, transfer.left) :
              /\ events' = events \o <<Read(len), Write(len)>>
              /\ transfer' = [transfer EXCEPT !.pc = "call", !.current = @ + len,
                                              !.left = @ - len]
              /\ UNCHANGED result
    /\ UNCHANGED <<config, op, wire, text>>

\* The loop of file_sender reads the next chunk of the source, or ends.
ReadBlockUpload ==
    /\ transfer.pc = "loop"
    /\ transfer.kind = "upload_to"
    /\ LET chunk == Min(chunk_size, transfer.left) IN
       IF ~(transfer.current < transfer.total)
       THEN /\ transfer' = [transfer EXCEPT !.pc = "done"]
            /\ result' = transfer.outcome
            /\ UNCHANGED events
       ELSE IF chunk = 0
       THEN /\ events' = Append(events, Read(0))
            /\ transfer' = [transfer EXCEPT !.pc = "done"]
            /\ result' = transfer.outcome
       ELSE /\ events' = Append(events, Read(chunk))
            /\ transfer' = [transfer EXCEPT !.pc = "call", !.current = @ + chunk,
                                            !.left = @ - chunk, !.chunk = chunk]
            /\ UNCHANGED result
    /\ UNCHANGED <<config, op, wire, text>>

(***************************************************************************)
(* Properties of a resource.  The body of the response to the PROPFIND of   *)
(* get_property is malformed or a tree whose elements, in document order,   *)
(* have a local name and a text; the text of an element without text is     *)
(* None.                                                                     *)
(***************************************************************************)
PropertyBody(elements) ==
    [read |-> TRUE, wellformed |-> TRUE, responses |-> <<>>, elements |-> elements]

PropertyNames == {"getetag", "displayname"}
PropertyElements == [name : PropertyNames \cup {"href"}, text : {"v", "None"}]
PropertyBodies ==
    {Malformed} \cup {PropertyBody(es) : es \in SeqsUpTo(PropertyElements, MaxEntries)}

\* The index of the first element from the i-th on whose local name is name;
\* 0 when there is none.
RECURSIVE FirstNamed(_, _, _)
FirstNamed(elements, i, name) ==
    IF i > Len(elements) THEN 0
    ELSE IF elements[i].name = name THEN i
    ELSE FirstNamed(elements, i + 1, name)

\* WebDavXmlUtils.parse_get_property_response: the text of the first element
\* the xpath finds; indexing the empty list of matches raises IndexError, and
\* a malformed body makes etree.fromstring raise.
parse_get_property_response(content, name) ==
    IF ~content.wellformed THEN Raise("XMLSyntaxError")
    ELSE LET i == FirstNamed(content.elements, 1, name) IN
         IF i = 0 THEN Raise("IndexError")
         ELSE Return(content.elements[i].text)

PropertyPaths == { <<"/", "x">>, <<"/", "x", "/", "y">> }

\* Client.get_property
GetProperty ==
    /\ op = NoCall
    /\ \E p \in PropertyPaths, name \in PropertyNames :
          LET urn == Urn(p, FALSE) IN
          /\ Call("get_property", p, <<>>, FALSE, name)
          /\ ExistsStep(<<>>, path(urn), LAMBDA w1, e :
               Then(w1, NoText, require(e, "RemoteResourceNotFound"), LAMBDA v :
                 ExecuteRequest(w1, "get_property", Urn_quote(urn),
                   [NoExtra EXCEPT !.data = "propfind"], LAMBDA w2, r :
                     Then(w2, NoText, r, LAMBDA st :
                       ReadText(PropertyBodies, LAMBDA t :
                         Done(w2, t, parse_get_property_response(t, name)))))))
          /\ UNCHANGED <<config, events, transfer>>

\* The methods of Client (client.py): what `self.<name>` finds.
ClientMethods ==
    {"list", "free", "exists", "create_directory", "is_directory", "info", "unlink",
     "delete", "move", "copy", "download_iter", "download_to", "download_file",
     "download_directory", "download", "upload_to", "upload_file", "upload_directory",
     "upload", "get_property", "set_property", "close", "resource"}

\* WebDavXmlUtils.create_set_property_batch_request_content(options) called
\* with one option, a dictionary: `for option in options` runs over the keys
\* of the dictionary, which are strings, and option['name'] on a string
\* raises TypeError; only a dictionary without keys gives a body, with no
\* property in it.
create_set_property_batch_request_content(keys) ==
    IF keys = {} THEN Return("propertyupdate") ELSE Raise("TypeError")

\* The keys of the option dictionaries set_property is called with.
PropertyOptions == { {"name"}, {"name", "value"} }

\* Client.set_property: the probe is written `self.check(...)`, and Client
\* has no attribute of that name.
SetProperty ==
    /\ op = NoCall
    /\ \E p \in PropertyPaths, name \in PropertyNames, keys \in PropertyOptions :
          LET urn == Urn(p, FALSE) IN
          /\ Call("set_property", p, <<>>, "value" \in keys, name)
          /\ IF "check" \notin ClientMethods
             THEN Done(<<>>, NoText, Raise("AttributeError"))
             ELSE ExistsStep(<<>>, path(urn), LAMBDA w1, e :
                    Then(w1, NoText, require(e, "RemoteResourceNotFound"), LAMBDA v :
                      Then(w1, NoText, create_set_property_batch_request_content(keys),
                        LAMBDA data :
                          ExecuteRequest(w1, "set_property", Urn_quote(urn),
                            [NoExtra EXCEPT !.data = data], LAMBDA w2, r :
                              Done(w2, NoText,
                                   IF r.kind = "raise" THEN r ELSE Return("None"))))))
          /\ UNCHANGED <<config, events, transfer>>

(***************************************************************************)
(* aiodav/urn.py on its own: a caller constructs a Urn from a string.       *)
(***************************************************************************)
\* The lengths of the strings a Urn is constructed from.
MaxPathLen == 6

\* The characters of those strings: the separator, the dot of the dot
\* segments, a character quote encodes and a character it leaves alone
\* ("%22" is the triplet of a character quote encodes).
UrnChars == {SEP, ".", "%", "2"}

UrnInputs == SeqsUpTo(UrnChars, MaxPathLen)

\* Urn(path, directory): the outcome of the call is the Urn's _path.
MakeUrn ==
    /\ op = NoCall
    /\ \E p \in UrnInputs, directory \in BOOLEAN :
          /\ Call("Urn", p, <<>>, directory, "")
          /\ Done(<<>>, NoText, Return(Urn(p, directory)))
          /\ UNCHANGED <<config, events, transfer>>

\* The lengths of the paths compared and of the paths the hrefs encode.
MaxHrefLen == 3

\* The characters of those paths: the separator, a character that may stand
\* in an href as it is or as its triplet, and one that must be encoded.
HrefChars == {SEP, "_", "%"}

\* The percent triplet of a character.
Triplet(c) ==
    CASE c = SEP -> <<"%", "2", "F">>
      [] c = "_" -> <<"%", "5", "F">>
      [] c = "%" -> <<"%", "2", "5">>

\* The hrefs a server may send for the path p: every character as its
\* triplet or, unless it is "%", as it is.
RECURSIVE Encodings(_)
Encodings(p) ==
    IF p = <<>> THEN {<<>>}
    ELSE {h \o t : h \in {Triplet(Head(p))} \cup (IF Head(p) = "%" THEN {} ELSE {<<Head(p)>>}),
                   t \in Encodings(Tail(p))}

\* The paths of the hrefs: absolute paths.  An href that begins with two
\* separators is a network-path reference and encodes no path of this form.
HrefPaths ==
    {p \in SeqsUpTo(HrefChars, MaxHrefLen) :
        /\ startswith(p, SEP)
        /\ ~(Len(p) >= 2 /\ p[2] = SEP)}

\* The decoded paths compared with them.
ComparedPaths == SeqsUpTo(HrefChars, MaxHrefLen)

\* Urn.compare_path(path_a, href), the href encoding the path p.
ComparePath ==
    /\ op = NoCall
    /\ \E path_a \in ComparedPaths, p \in HrefPaths :
         \E href \in Encodings(p) :
            /\ op' = [name |-> "compare_path", path |-> path_a, dest |-> href,
                      flag |-> FALSE, opt |-> "", size |-> 0, buffer_size |-> 0,
                      encodes |-> p]
            /\ Done(<<>>, NoText, Return(compare_path(path_a, href)))
            /\ UNCHANGED <<config, events, transfer>>

(***************************************************************************)
(* Client.free: the body of the PROPFIND response is malformed or holds     *)
(* elements with a local name and a text, as for get_property.              *)
(***************************************************************************)
QuotaNames == {"quota-available-bytes", "quota-used-bytes"}

\* The texts of the quota elements: none, two numbers and a text that is no
\* number.
QuotaTexts == {"None", "0", "7", "x"}
QuotaElements == [name : QuotaNames, text : QuotaTexts]
FreeBodies ==
    {Malformed} \cup {PropertyBody(es) : es \in SeqsUpTo(QuotaElements, MaxEntries)}

\* int(text) for the texts of the model that are numbers.
int(t) == CASE t = "0" -> 0 [] t = "7" -> 7

\* parse_free_space_response without the except clause for TypeError.
parse_free_space_response_no_except(content) ==
    IF ~content.wellformed THEN Return(-1)
    ELSE LET i == FirstNamed(content.elements, 1, "quota-available-bytes") IN
         IF i = 0 THEN Raise("MethodNotSupported")
         ELSE LET t == content.elements[i].text IN
              IF t = "None" THEN Raise("TypeError")
              ELSE IF t \in {"0", "7"} THEN Return(int(t))
              ELSE Raise("ValueError")

\* WebDavXmlUtils.parse_free_space_response: int(node.text) of the first
\* quota-available-bytes element; MethodNotSupported when there is none and
\* when int(None) raises TypeError; -1 when etree.fromstring raises
\* XMLSyntaxError; the ValueError of int on another text is not caught.
parse_free_space_response(content) ==
    IF ~content.wellformed THEN Return(-1)
    ELSE LET i == FirstNamed(content.elements, 1, "quota-available-bytes") IN
         IF i = 0 THEN Raise("MethodNotSupported")
         ELSE LET t == content.elements[i].text IN
              IF t = "None" THEN Raise("MethodNotSupported")
              ELSE IF t \in {"0", "7"} THEN Return(int(t))
              ELSE Raise("ValueError")

\* Client.free
Free ==
    /\ op = NoCall
    /\ Call("free", <<>>, <<>>, FALSE, "")
    /\ ExecuteRequest(<<>>, "free", <<>>, [NoExtra EXCEPT !.data = "propfind"],
         LAMBDA w, r :
           Then(w, NoText, r, LAMBDA st :
             ReadText(FreeBodies, LAMBDA t :
               Done(w, t, parse_free_space_response(t)))))
    /\ UNCHANGED <<config, events, transfer>>

(***************************************************************************)
(* class Resource: a handle that holds a Urn and delegates to the Client.   *)
(***************************************************************************)
\* Client.move as a step of an operation.
ClientMove(w, source, destination, overwrite, K(_, _)) ==
    LET urn_from == Urn(source, FALSE)
        urn_to == Urn(destination, FALSE)
        headers == [NoExtra EXCEPT
                      !.Destination = get_url(Urn_quote(urn_to)),
                      !.Overwrite = IF overwrite THEN "T" ELSE "F"]
    IN ExistsStep(w, path(urn_from), LAMBDA w1, e1 :
         LET c1 == require(e1, "RemoteResourceNotFound") IN
         IF c1.kind = "raise" THEN K(w1, c1)
         ELSE ExistsStep(w1, parent(urn_to), LAMBDA w2, e2 :
                LET c2 == require(e2, "RemoteParentNotFound") IN
                IF c2.kind = "raise" THEN K(w2, c2)
                ELSE ExecuteRequest(w2, "move", Urn_quote(urn_from), headers,
                       LAMBDA w3, r :
                         K(w3, IF r.kind = "raise" THEN r ELSE Return("None")))))

\* Client.copy as a step of an operation.
ClientCopy(w, source, destination, depth, K(_, _, _)) ==
    LET urn_from == Urn(source, FALSE)
        urn_to == Urn(destination, FALSE)
        headers == [NoExtra EXCEPT !.Destination = get_url(Urn_quote(urn_to))]
    IN ExistsStep(w, path(urn_from), LAMBDA w1, e1 :
         LET c1 == require(e1, "RemoteResourceNotFound") IN
         IF c1.kind = "raise" THEN K(w1, NoText, c1)
         ELSE ExistsStep(w1, parent(urn_to), LAMBDA w2, e2 :
                LET c2 == require(e2, "RemoteParentNotFound") IN
                IF c2.kind = "raise" THEN K(w2, NoText, c2)
                ELSE IsDirectoryStepOn(DownloadInfoBodies, w2, path(urn_from),
                       LAMBDA w3, t, d :
                         IF d.kind = "raise" THEN K(w3, t, d)
                         ELSE ExecuteRequest(w3, "copy", Urn_quote(urn_from),
                                IF d.value THEN [headers EXCEPT !.Depth = depth]
                                ELSE headers,
                                LAMBDA w4, r : K(w4, t, r)))))

\* Client.info as a step of an operation.
ClientInfo(w, p, K(_, _, _)) ==
    LET urn == Urn(p, FALSE) IN
    CheckRemoteResourceStep(w, p, urn, LAMBDA w1, c :
      IF c.kind = "raise" THEN K(w1, NoText, c)
      ELSE ExecuteRequest(w1, "info", Urn_quote(urn), NoExtra, LAMBDA w2, r :
             IF r.kind = "raise" THEN K(w2, NoText, r)
             ELSE ReadText(DownloadInfoBodies, LAMBDA t :
                    K(w2, t, parse_info_response(t, get_full_path(urn),
                                                 hostname_path)))))

\* Client.unlink as a step of an operation.
ClientUnlink(w, p, K(_, _)) ==
    ExecuteRequest(w, "clean", Urn_quote(Urn(p, FALSE)), NoExtra, LAMBDA w1, r :
      K(w1, IF r.kind = "raise" THEN r ELSE Return("None")))

\* The paths Client.resource, Resource.move and Resource.copy are called
\* with, and the names Resource.rename is called with.
ResourcePaths == { <<"/", "x">>, <<"/", "x", "/", "y">> }
ResourceTargets == { <<"/", "y">>, <<"/", "x", "/">>, <<"x", "/", "/", "_">> }
ResourceNames == { <<"y">>, <<"/", "x", "/", "_">> }

\* The caller calls a method of the Resource it holds, whose urn is held.
CallResource(name, p) ==
    /\ op = NoCall
    /\ resource_urn # NoHandle
    /\ op' = [name |-> name, path |-> p, dest |-> <<>>, flag |-> FALSE, opt |-> "",
              size |-> 0, buffer_size |-> 0, held |-> resource_urn]

\* `self.urn = new_urn` assigning whatever the call before it did.
held_urn_always(r, old_urn, new_urn) == new_urn

\* `await self.client.move(...)` followed by `self.urn = new_urn`: the
\* assignment is not reached when the call raises.
held_urn(r, old_urn, new_urn) ==
    IF r.kind = "raise" THEN old_urn ELSE new_urn

\* Client.resource
ClientResource ==
    /\ op = NoCall
    /\ resource_urn = NoHandle
    /\ \E p \in ResourcePaths : resource_urn' = Urn(p, FALSE)
    /\ UNCHANGED <<auth, root, chunk_size, op, wire, text, events, result, transfer>>

\* Resource.move
ResourceMove ==
    /\ op = NoCall
    /\ \E p \in ResourceTargets :
          LET new_urn == Urn(p, FALSE) IN
          /\ CallResource("Resource.move", p)
          /\ ClientMove(<<>>, path(resource_urn), path(new_urn), FALSE,
                        LAMBDA w, r : Done(w, NoText, r))
          /\ resource_urn' = held_urn(result', resource_urn, new_urn)
          /\ UNCHANGED <<auth, root, chunk_size, events, transfer>>

\* Resource.rename
ResourceRename ==
    /\ op = NoCall
    /\ \E name \in ResourceNames :
          LET old_path == path(resource_urn)
              parent_path == parent(resource_urn)
              new_path == parent_path \o filename(Urn(name, FALSE))
          IN
          /\ CallResource("Resource.rename", name)
          /\ ClientMove(<<>>, old_path, new_path, FALSE,
                        LAMBDA w, r : Done(w, NoText, r))
          /\ resource_urn' = held_urn(result', resource_urn, Urn(new_path, FALSE))
          /\ UNCHANGED <<auth, root, chunk_size, events, transfer>>

\* Resource.copy: the outcome is the urn of the Resource returned.
ResourceCopy ==
    /\ op = NoCall
    /\ \E p \in ResourceTargets :
          LET urn == Urn(p, FALSE) IN
          /\ CallResource("Resource.copy", p)
          /\ ClientCopy(<<>>, path(resource_urn), p, "1", LAMBDA w, t, r :
               Done(w, t, IF r.kind = "raise" THEN r ELSE Return(urn)))
          /\ UNCHANGED <<config, events, transfer>>

\* Resource.info: the outcome is the info, filtered or not.
ResourceInfo ==
    /\ CallResource("Resource.info", <<>>)
    /\ ClientInfo(<<>>, path(resource_urn), LAMBDA w, t, r : Done(w, t, r))
    /\ UNCHANGED <<config, events, transfer>>

\* Resource.is_directory
ResourceIsDirectory ==
    /\ CallResource("Resource.is_directory", <<>>)
    /\ IsDirectoryStepOn(DownloadInfoBodies, <<>>, path(resource_urn),
                         LAMBDA w, t, r : Done(w, t, r))
    /\ UNCHANGED <<config, events, transfer>>

\* Resource.unlink
ResourceUnlink ==
    /\ CallResource("Resource.unlink", <<>>)
    /\ ClientUnlink(<<>>, path(resource_urn), LAMBDA w, r : Done(w, NoText, r))
    /\ UNCHANGED <<config, events, transfer>>

\* Resource.delete
ResourceDelete ==
    /\ CallResource("Resource.delete", <<>>)
    /\ ClientUnlink(<<>>, path(resource_urn), LAMBDA w, r : Done(w, NoText, r))
    /\ UNCHANGED <<config, events, transfer>>

\* Resource.exists
ResourceExists ==
    /\ CallResource("Resource.exists", <<>>)
    /\ ExistsStep(<<>>, path(resource_urn), LAMBDA w, r : Done(w, NoText, r))
    /\ UNCHANGED <<config, events, transfer>>

\* Client.unlink
Unlink ==
    /\ op = NoCall
    /\ \E p \in RemotePaths :
          /\ Call("unlink", p, <<>>, FALSE, "")
          /\ ClientUnlink(<<>>, p, LAMBDA w, r : Done(w, NoText, r))
          /\ UNCHANGED <<config, events, transfer>>

\* Client.delete
Delete ==
    /\ op = NoCall
    /\ \E p \in RemotePaths :
          /\ Call("delete", p, <<>>, FALSE, "")
          /\ ClientUnlink(<<>>, p, LAMBDA w, r : Done(w, NoText, r))
          /\ UNCHANGED <<config, events, transfer>>

(***************************************************************************)
(* WebDavXmlUtils.parse_is_dir_response on its own, for a hostname with and *)
(* without a path.                                                          *)
(***************************************************************************)
Prefixes == { <<>>, <<"/", "d">> }
ParsedPaths == { <<"/", "x">>, <<"/", "x", "/">> }
ParsedHrefs == { <<"/", "x">>, <<"/", "d", "/", "x", "/">>, <<"/", "y">> }
ParsedResponses == [href : ParsedHrefs, rtype : {"none", "plain", "collection"}]
ParsedBodies ==
    {Malformed} \cup {Multistatus(rs) : rs \in SeqsUpTo(ParsedResponses, MaxEntries)}

\* WebDavXmlUtils.parse_is_dir_response(content, path, hostname)
ParseIsDirResponse ==
    /\ op = NoCall
    /\ \E content \in ParsedBodies, p \in ParsedPaths, prefix \in Prefixes :
          /\ Call("parse_is_dir_response", p, prefix, FALSE, "")
          /\ Done(<<>>, content, parse_is_dir_response(content, p, prefix))
          /\ UNCHANGED <<config, events, transfer>>

Roots == { <<>>, <<"/", "R">> }

\* The chunk_size arguments of the constructor: smaller than, equal to and
\* larger than the sizes uploaded, dividing them and not.
ChunkSizes == {1, 2}

Init ==
    /\ auth \in BOOLEAN
    /\ root \in Roots
    /\ chunk_size \in ChunkSizes
    /\ op = NoCall
    /\ wire = <<>>
    /\ text = NoText
    /\ events = <<>>
    /\ result = NoResult
    /\ transfer = NoTransfer
    /\ resource_urn = NoHandle

Next ==
    \/ Exists
    \/ CreateDirectory
    \/ Move
    \/ Copy
    \/ IsDirectory
    \/ Info
    \/ List
    \/ UploadTo
    \/ UploadFile
    \/ Upload
    \/ UploadDirectory
    \/ DownloadIter
    \/ DownloadTo
    \/ GetProperty
    \/ Forget

Spec == Init /\ [][Next]_vars

\* The operations that write to the server.
NextWrite ==
    \/ CreateDirectory
    \/ Move
    \/ Copy
    \/ UploadTo
    \/ UploadFile
    \/ Forget

SpecWrite == Init /\ [][NextWrite]_vars

\* The existence probe and the operations that only probe before their request.
NextProbe ==
    \/ Exists
    \/ CreateDirectory
    \/ Move
    \/ Forget

SpecProbe == Init /\ [][NextProbe]_vars

\* The operations that read a multistatus body about one resource.
NextInfo ==
    \/ IsDirectory
    \/ Info
    \/ Forget

SpecInfo == Init /\ [][NextInfo]_vars

\* Listing.
NextList ==
    \/ List
    \/ Forget

SpecList == Init /\ [][NextList]_vars

\* Uploading.
NextUpload ==
    \/ UploadTo
    \/ UploadFile
    \/ Forget

SpecUpload == Init /\ [][NextUpload]_vars


\* The transfers of local files and trees to the server.
NextTransfer ==
    \/ Upload
    \/ UploadDirectory
    \/ UploadFile
    \/ Forget

SpecTransfer == Init /\ [][NextTransfer]_vars

\* The downloads of one resource to a buffer or an iterator.
NextDownload ==
    \/ DownloadIter
    \/ DownloadTo
    \/ Forget

SpecDownload == Init /\ [][NextDownload]_vars

\* The downloads to the local file system.
NextDownloadTree ==
    \/ DownloadFile
    \/ DownloadDirectory
    \/ Download
    \/ Forget

SpecDownloadTree == Init /\ [][NextDownloadTree]_vars

\* The transfers with a progress callback that suspends.
NextAsync ==
    \/ DownloadToAsync
    \/ UploadToAsync
    \/ CallProgress
    \/ ProgressCompletes
    \/ Resume
    \/ YieldChunk
    \/ ReadBlockDownload
    \/ ReadBlockUpload
    \/ Forget

SpecAsync == Init /\ [][NextAsync]_vars

\* The properties of a resource.
NextProperty ==
    \/ GetProperty
    \/ SetProperty
    \/ Forget

SpecProperty == Init /\ [][NextProperty]_vars

\* The quota operation alone.
NextFree ==
    \/ Free
    \/ Forget

SpecFree == Init /\ [][NextFree]_vars

\* A Resource and the methods called on it.
NextResource ==
    \/ ClientResource
    \/ ResourceMove
    \/ ResourceRename
    \/ ResourceCopy
    \/ ResourceInfo
    \/ ResourceIsDirectory
    \/ ResourceUnlink
    \/ ResourceDelete
    \/ ResourceExists
    \/ Forget

SpecResource == Init /\ [][NextResource]_vars

\* The operations that send one request after their checks.
NextOrchestrator ==
    \/ List
    \/ Free
    \/ Exists
    \/ CreateDirectory
    \/ IsDirectory
    \/ Info
    \/ Unlink
    \/ Delete
    \/ Move
    \/ Copy
    \/ GetProperty
    \/ SetProperty
    \/ Forget

SpecOrchestrator == Init /\ [][NextOrchestrator]_vars

\* The download of a directory alone.
NextDownloadDirectory ==
    \/ DownloadDirectory
    \/ Forget

SpecDownloadDirectory == Init /\ [][NextDownloadDirectory]_vars

\* The download to a local file alone.
NextDownloadFile ==
    \/ DownloadFile
    \/ Forget

SpecDownloadFile == Init /\ [][NextDownloadFile]_vars

\* The type check, as an operation and as the parse alone.
NextIsDirectory ==
    \/ IsDirectory
    \/ ParseIsDirResponse
    \/ Forget

SpecIsDirectory == Init /\ [][NextIsDirectory]_vars

\* The operations whose probe and request another client of the server can
\* come between: the server answers each request as it is then.
NextInterleaved ==
    \/ Move
    \/ ClientResource
    \/ ResourceMove
    \/ UploadDirectory
    \/ Forget

SpecInterleaved == Init /\ [][NextInterleaved]_vars

\* The path model alone.
NextUrn ==
    \/ MakeUrn
    \/ ComparePath
    \/ Forget

SpecUrn == Init /\ [][NextUrn]_vars

(***************************************************************************)
(* Properties                                                              *)
(***************************************************************************)
IsPreflight(e) == e.outcome.kind = "unchecked"
IsRequest(e) == ~IsPreflight(e)
IsHead(e) == e.method = "HEAD"

\* The requests of the operation, the GETs of the hostname left out.
Requests == SelectSeq(wire, IsRequest)
\* The existence probes of the operation.
Probes == SelectSeq(wire, IsHead)

Sends(method) == \E i \in DOMAIN wire : wire[i].method = method
Raised(error) == result.kind = "raise" /\ result.error = error
Returned(v) == result.kind = "return" /\ result.value = v

\* The probe was answered, and answered so that exists returns False.
Absent(e) == e.answer.kind = "response" /\ e.answer.status \notin {200, 405, 507}
\* The probe was answered so that exists returns True.
Present(e) == e.answer.kind = "response" /\ e.answer.status = 200

\* The url path of the request for the raw path p, as a file or directory.
UrlOf(p, directory) == root \o Urn(p, directory)

\* C1: the status of the response to the request of _execute_request alone
\* decides its outcome: 507 raises NotEnoughSpace, 404 RemoteResourceNotFound,
\* 405 MethodNotSupported, any other status >= 400 ResponseErrorCode with
\* that status, and a status < 400 returns the response; an error of the last
\* request that is neither a probe's nor the MKCOL's is the operation's error.
C1_StatusDecidesOutcome ==
    /\ \A i \in DOMAIN wire :
         LET e == wire[i]
             st == e.answer.status
         IN (IsRequest(e) /\ e.answer.kind = "response") =>
              /\ st = 507 => e.outcome = Raise("NotEnoughSpace")
              /\ st = 404 => e.outcome = Raise("RemoteResourceNotFound")
              /\ st = 405 => e.outcome = Raise("MethodNotSupported")
              /\ (st >= 400 /\ st \notin {404, 405, 507}) =>
                    e.outcome = RaiseCode("ResponseErrorCode", st)
              /\ st < 400 => e.outcome = Return(st)
    /\ (wire # <<>> /\ result.kind # "none") =>
         LET e == wire[Len(wire)] IN
         (IsRequest(e) /\ e.outcome.kind = "raise" /\ e.method \notin {"HEAD", "MKCOL"})
            => (result.kind = "raise" /\ result.error = e.outcome.error
                                       /\ result.code = e.outcome.code)

\* A MOVE answered 403 has ended the move in ResponseErrorCode with code 403.
C1_Witness ==
    /\ op.name = "move"
    /\ wire # <<>>
    /\ wire[Len(wire)].method = "MOVE"
    /\ wire[Len(wire)].answer = Response(403)
    /\ Raised("ResponseErrorCode")
    /\ result.code = 403

\* C2: exists sends at most one HEAD, and exactly one, for the path, when it
\* returns; it returns True if the status is 200 and only then, and False,
\* without raising, for every other status but 405 and 507.
C2_ExistsIffStatus200 ==
    op.name = "exists" =>
      /\ Len(Probes) <= 1
      /\ Len(Requests) = Len(Probes)
      /\ result.kind = "return" => Len(Probes) = 1
      /\ \A i \in DOMAIN Probes :
           LET e == Probes[i] IN
           /\ e.path = UrlOf(op.path, FALSE)
           /\ Present(e) => Returned(TRUE)
           /\ Absent(e) => Returned(FALSE)
           /\ Returned(TRUE) => Present(e)

\* exists has returned False for a HEAD answered 204.
C2_Witness ==
    /\ op.name = "exists"
    /\ Len(Probes) = 1
    /\ Probes[1].answer = Response(204)
    /\ Returned(FALSE)

PrimaryOf(name) ==
    CASE name = "move" -> "MOVE"
      [] name = "copy" -> "COPY"
      [] name = "create_directory" -> "MKCOL"
      [] name \in {"upload_to", "upload_file"} -> "PUT"

\* The url path of the probe of the parent of the raw path p.
ParentUrlOf(p, directory) == UrlOf(parent(Urn(p, directory)), FALSE)

\* C4: when the probe of the destination's parent reports absence, move, copy,
\* create_directory and upload_to raise RemoteParentNotFound and never send
\* MOVE, COPY, MKCOL or PUT; move and copy probe the source first, and raise
\* RemoteResourceNotFound for an absent source without probing the parent.
C4_ParentAbsent ==
    /\ (op.name \in {"move", "copy"} /\ Len(Probes) >= 1) =>
         /\ Probes[1].path = UrlOf(op.path, FALSE)
         /\ Absent(Probes[1]) =>
              (Raised("RemoteResourceNotFound") /\ Len(Probes) = 1
                 /\ ~Sends(PrimaryOf(op.name)))
         /\ Len(Probes) >= 2 =>
              /\ Present(Probes[1])
              /\ Probes[2].path = ParentUrlOf(op.dest, FALSE)
              /\ Absent(Probes[2]) =>
                   (Raised("RemoteParentNotFound") /\ Len(Probes) = 2
                      /\ ~Sends(PrimaryOf(op.name)))
    /\ (op.name \in {"create_directory", "upload_to", "upload_file"}
          /\ Len(Probes) >= 1) =>
         /\ Probes[1].path = ParentUrlOf(op.path, op.name = "create_directory")
         /\ Absent(Probes[1]) =>
              (Raised("RemoteParentNotFound") /\ Len(Probes) = 1
                 /\ ~Sends(PrimaryOf(op.name)))
    /\ (op.name \in {"move", "copy", "create_directory", "upload_to", "upload_file"}
          /\ Sends(PrimaryOf(op.name))) =>
         \A i \in DOMAIN Probes :
            i <= (IF op.name \in {"move", "copy"} THEN 2 ELSE 1) => Present(Probes[i])

\* A copy whose source is there and whose destination has no parent.
C4_Witness ==
    /\ op.name = "copy"
    /\ Len(Probes) = 2
    /\ Present(Probes[1])
    /\ Probes[2].answer = Response(404)
    /\ Raised("RemoteParentNotFound")

\* The MKCOL of create_directory, when it was sent and answered.
Mkcol == SelectSeq(wire, LAMBDA e : e.method = "MKCOL" /\ e.answer.kind = "response")

BothAbsent == Len(Probes) >= 2 /\ Absent(Probes[1]) /\ Absent(Probes[2])

RECURSIVE Ascending(_, _, _)
Ascending(i, n, S) ==
    IF i > n THEN <<>>
    ELSE (IF i \in S THEN <<i>> ELSE <<>>) \o Ascending(i + 1, n, S)

\* The path of a response element: the decoded path of its href.
EntryPath(r) == unquote(urlsplit_path(r.href))

\* C7: what list returns for a directory holds no entry whose normalized
\* path is the normalized path of the directory, whatever characters its
\* name has, and holds every other entry of the response, in response order.
C7_ListExcludesSelf ==
    (op.name = "list" /\ result.kind = "return") =>
      LET rs == text.responses
          own == normalize_path(get_full_path(Urn(op.path, TRUE)))
          Others == {i \in DOMAIN rs : normalize_path(EntryPath(rs[i])) # own}
      IN result.value.kept = Ascending(1, Len(rs), Others)

\* C8: list of a directory other than the root probes the directory form of
\* the path first and raises RemoteResourceNotFound, without a PROPFIND, when
\* the probe reports absence; list of the root sends no probe, only the
\* PROPFIND.
C8_ListProbe ==
    op.name = "list" =>
      LET directory_urn == Urn(op.path, TRUE) IN
      IF directory_urn = <<SEP>>
      THEN /\ Probes = <<>>
           /\ \A i \in DOMAIN Requests :
                /\ i = 1
                /\ Requests[i].method = "PROPFIND"
                /\ Requests[i].path = root \o <<SEP>>
      ELSE /\ Requests # <<>> =>
                /\ Requests[1].method = "HEAD"
                /\ Requests[1].path = root \o directory_urn
                /\ Absent(Requests[1]) =>
                     (Raised("RemoteResourceNotFound") /\ Len(Requests) = 1)
           /\ Sends("PROPFIND") =>
                /\ Len(Requests) = 2
                /\ Present(Requests[1])
                /\ Requests[2].method = "PROPFIND"
                /\ Requests[2].path = root \o directory_urn

\* A list of a directory other than the root whose probe was answered 404,
\* and nothing sent after it.
C8_Witness ==
    /\ op.name = "list"
    /\ Urn(op.path, TRUE) # <<SEP>>
    /\ Len(Requests) = 1
    /\ Requests[1].answer = Response(404)
    /\ Raised("RemoteResourceNotFound")

IsUpload == op.name \in {"upload_to", "upload_file"}
\* The calls of the progress callback and the chunks yielded, in order.
Calls == SelectSeq(events, LAMBDA e : e.ev = "progress")
Yields == SelectSeq(events, LAMBDA e : e.ev = "yield")
\* The transport has asked for chunks until the generator ended.
Exhausted == events # <<>> /\ events[Len(events)] = Stop

RECURSIVE SumCurrent(_)
SumCurrent(es) == IF es = <<>> THEN 0 ELSE Head(es).current + SumCurrent(Tail(es))

\* C9: for a source of n bytes uploaded with a progress callback and
\* buffer_size = n, whatever the chunk size, the generator handed to the PUT
\* yields n bytes in all, and the callback is called with (0, n) first, then
\* with strictly increasing counts and the total n, with (n, n) last, and
\* at least twice when n > 0.
C9_ProgressSequence ==
    (IsUpload /\ op.flag /\ op.buffer_size = op.size /\ Exhausted) =>
      LET n == op.size IN
      /\ \E i \in DOMAIN wire :
            wire[i].method = "PUT" /\ wire[i].headers.data = "file_sender"
      /\ SumCurrent(Yields) = n
      /\ Calls # <<>>
      /\ Calls[1] = Progress(0, n)
      /\ \A i \in DOMAIN Calls : Calls[i].total = n
      /\ \A i \in 1..(Len(Calls) - 1) : Calls[i].current < Calls[i + 1].current
      /\ Calls[Len(Calls)] = Progress(n, n)
      /\ n > 0 => Len(Calls) >= 2

\* A file of three bytes sent in chunks of two: (0, 3), (2, 3), (3, 3).
C9_Witness ==
    /\ op.name = "upload_file"
    /\ op.flag
    /\ op.size = 3
    /\ chunk_size = 2
    /\ Exhausted
    /\ Calls = <<Progress(0, 3), Progress(2, 3), Progress(3, 3)>>
    /\ Yields = <<Yield(2), Yield(1)>>

\* C10: upload_file, and upload_to given an opened file, called without a
\* progress callback send one PUT whose data argument is a bytes payload (of
\* the length of the file).
C10_UploadBytes ==
    (IsUpload /\ ~op.flag /\ Sends("PUT")) =>
      /\ Cardinality({i \in DOMAIN wire : wire[i].method = "PUT"}) = 1
      /\ \A i \in DOMAIN wire :
            wire[i].method = "PUT" => wire[i].headers.data = "bytes"


Range(f) == {f[i] : i \in DOMAIN f}

\* The url paths of the PUT requests of the operation, in order.
PutPaths ==
    LET puts == SelectSeq(wire, LAMBDA e : e.method = "PUT")
    IN [i \in 1..Len(puts) |-> puts[i].path]

\* C11: upload returns only after the transfer it dispatched to has run:
\* when it returns for a local regular file the PUT for remote_path has been
\* sent, and an error of the nested transfer (OptionNotValid of upload_to for
\* a remote path in directory form) is raised by upload.
C11_UploadAwaitsTransfer ==
    (op.name = "upload" /\ op.local.kind = "file") =>
      /\ result.kind = "return" => UrlOf(op.path, FALSE) \in Range(PutPaths)
      /\ is_dir(Urn(op.path, FALSE)) => Raised("OptionNotValid")

\* The url paths of the PUTs that upload the files of the entries from the
\* k-th on of a local directory to the remote directory dir_path, in listing
\* order.
RECURSIVE ExpectedPuts(_, _, _)
ExpectedPuts(dir_path, entries, k) ==
    IF k > Len(entries) THEN <<>>
    ELSE LET child == dir_path \o resource_name(k) IN
         (IF entries[k].kind = "file" THEN <<UrlOf(child, FALSE)>>
          ELSE ExpectedPuts(path(Urn(child, TRUE)), entries[k].entries, 1))
            \o ExpectedPuts(dir_path, entries, k + 1)

\* C12: after upload_directory returns, every file of the local directory has
\* been uploaded under the remote directory, one PUT per file, in local
\* listing order.
C12_UploadDirectoryUploadsAll ==
    (op.name = "upload_directory" /\ result.kind = "return") =>
      PutPaths = ExpectedPuts(path(Urn(op.path, TRUE)), op.local.entries, 1)

\* C13: upload_directory raises LocalResourceNotFound for a local path that
\* does not exist and OptionNotValid for one that is not a directory, and
\* sends no request in either case.
C13_UploadDirectoryLocalChecks ==
    op.name = "upload_directory" =>
      /\ op.local.kind = "missing" => Raised("LocalResourceNotFound") /\ wire = <<>>
      /\ op.local.kind = "file" => Raised("OptionNotValid") /\ wire = <<>>


\* The operation is a download of a tree, and the server has said that the
\* remote path is a directory each time it was asked: the local directory
\* has been created.
DownloadsDirectory ==
    /\ op.name \in {"download", "download_directory"}
    /\ \E i \in DOMAIN events : events[i] = Makedirs

\* C14: download of a remote directory completes successfully: the local path
\* is removed first, the directory is listed, and its entries are downloaded.
C14_DownloadDirectoryCompletes ==
    DownloadsDirectory =>
      /\ result.kind = "return"
      /\ \E i \in DOMAIN wire :
            wire[i].method = "PROPFIND" /\ wire[i].path = UrlOf(op.path, TRUE)


\* The blocks written to the buffer, in order.
Writes == SelectSeq(events, LAMBDA e : e.ev = "write")

\* C15: in download_to with a progress callback, total is the response's
\* content-length in every call; the first call is (0, total) and comes before
\* any block is written; after each block is written the callback is called
\* with the number of bytes written so far; so when the length of the body
\* equals content-length the calls are strictly increasing and end at
\* (total, total).
C15_DownloadProgress ==
    (op.name = "download_to" /\ op.flag /\ result.kind = "return") =>
      LET total == text.content_length IN
      /\ Len(events) = 2 * Len(text.blocks) + 1
      /\ \A i \in DOMAIN Calls : Calls[i].total = total
      /\ events[1] = Progress(0, total)
      /\ \A k \in DOMAIN text.blocks :
            /\ events[2 * k] = Write(text.blocks[k])
            /\ events[2 * k + 1] = Progress(SumCurrent(SubSeq(Writes, 1, k)), total)
      /\ Sum(text.blocks) = total =>
            /\ \A i \in 1..(Len(Calls) - 1) : Calls[i].current < Calls[i + 1].current
            /\ Calls[Len(Calls)] = Progress(total, total)

C15_Witness ==
    /\ op.name = "download_to" /\ op.flag /\ result.kind = "return"
    /\ chunk_size = 2
    /\ text.content_length = 3
    /\ events = <<Progress(0, 3), Write(2), Progress(2, 3), Write(1), Progress(3, 3)>>


IsDownload == op.name \in {"download_iter", "download_to"}

\* The server has told is_directory that the target of the download is a
\* directory.
TargetIsDirectory ==
    /\ text.wellformed
    /\ LET d == parse_is_dir_response(text, get_full_path(Urn(op.path, FALSE)),
                                      hostname_path)
       IN d.kind = "return" /\ d.value

\* The server has told the download that its target does not exist: the last
\* thing on the wire is a probe answered with absence, and it is the second
\* probe of is_directory's check or the probe that follows is_directory.
TargetDoesNotExist ==
    /\ Len(Probes) >= 2
    /\ IsHead(wire[Len(wire)])
    /\ Absent(wire[Len(wire)])

\* The GET of the target is on the wire.
SendsDownload == \E i \in DOMAIN Requests : Requests[i].method = "GET"

RECURSIVE CountEv(_, _)
CountEv(ev, n) ==
    IF n = 0 THEN 0
    ELSE (IF events[n].ev = ev THEN 1 ELSE 0) + CountEv(ev, n - 1)

\* C16: with a progress callback that suspends, the transfer loop of
\* download_to and of upload_to reads no chunk while a call of the callback is
\* running, and calls of the callback never overlap: every read of a chunk
\* and every start of a call comes when all earlier calls have completed.
C16_AwaitsCallback ==
    (op.name \in {"download_to", "upload_to"} /\ transfer.pc # "idle") =>
      /\ transfer.running <= 1
      /\ \A i \in DOMAIN events :
            events[i].ev \in {"read", "progress"} =>
              CountEv("progress", i - 1) = CountEv("completed", i - 1)

C16_Witness ==
    /\ op.name = "download_to"
    /\ transfer.pc = "done"
    /\ result.kind = "return"
    /\ chunk_size = 1
    /\ events = <<Progress(0, 2), Completed, Read(1), Write(1), Progress(1, 2), Completed,
                  Read(1), Write(1), Progress(2, 2), Completed>>


\* The path argument of the operation is in directory form.
DirectoryForm == Len(op.path) > 0 /\ op.path[Len(op.path)] = SEP

\* C18: upload_to with a path in directory form raises OptionNotValid before
\* any request is sent (no probe, no PUT), without reading the source and
\* without calling the progress callback.
C18_UploadToDirectoryForm ==
    (IsUpload /\ DirectoryForm) =>
      /\ Raised("OptionNotValid")
      /\ wire = <<>>
      /\ events = <<>>

C18_Witness ==
    /\ op.name = "upload_to"
    /\ op.path = <<"/", "x", "/">>
    /\ op.flag
    /\ op.size > 0
    /\ Raised("OptionNotValid")
    /\ wire = <<>>
    /\ events = <<>>


\* C19: the COPY request of copy carries the Destination header, the url of
\* the destination, always, and a Depth header (the depth argument) if and
\* only if is_directory(source) returned True.
C19_CopyHeaders ==
    op.name = "copy" =>
      \A i \in DOMAIN wire :
        wire[i].method = "COPY" =>
          /\ wire[i].headers.Destination = UrlOf(op.dest, FALSE)
          /\ wire[i].headers.Destination # <<>>
          /\ TargetIsDirectory => wire[i].headers.Depth = op.opt
          /\ ~TargetIsDirectory => wire[i].headers.Depth = ""

C19_Witness ==
    /\ op.name = "copy"
    /\ ~TargetIsDirectory
    /\ result.kind = "return"
    /\ \E i \in DOMAIN wire :
          /\ wire[i].method = "COPY"
          /\ wire[i].headers.Depth = ""
          /\ wire[i].headers.Destination = root \o <<"/", "x", "/", "y">>


\* C20: get_property on an existing resource returns None when the response
\* has no element whose local name is option['name'], and the text of the
\* element when it has one.
C20_GetPropertyAbsent ==
    (op.name = "get_property" /\ text.read /\ text.wellformed) =>
      LET i == FirstNamed(text.elements, 1, op.opt) IN
      /\ result.kind = "return"
      /\ result.value = IF i = 0 THEN "None" ELSE text.elements[i].text


\* C21: set_property on an existing resource completes without error having
\* sent one PROPPATCH, and on a resource whose probe reports absence it
\* raises RemoteResourceNotFound without a PROPPATCH; any other end is the
\* error of one of its requests.
C21_SetPropertySends ==
    (op.name = "set_property" /\ result # NoResult) =>
      LET patches == {i \in DOMAIN wire : wire[i].method = "PROPPATCH"}
          probes == {i \in DOMAIN wire : wire[i].method = "HEAD"}
      IN
      /\ Cardinality(probes) = 1
      /\ \/ result.kind = "return" /\ Cardinality(patches) = 1
         \/ /\ result.kind = "raise"
            /\ patches = {}
            /\ result.error = "RemoteResourceNotFound"
         \/ /\ result.kind = "raise"
            /\ \E i \in DOMAIN wire : wire[i].outcome = result


\* C22: the decoded path of a Urn is a fixed point: a Urn constructed from
\* it has the same decoded path.
C22_PathIdempotent ==
    (op.name = "Urn" /\ result.kind = "return") =>
      path(Urn(path(result.value), FALSE)) = path(result.value)


\* s holds two consecutive separators.
DoubleSeparator(s) == \E i \in 1..(Len(s) - 1) : s[i] = SEP /\ s[i + 1] = SEP

\* C23: the encoded path of every constructed Urn begins with the separator
\* and holds no two consecutive separators; constructed with directory=True
\* it ends with the separator and is_dir() is true.
C23_UrnInvariants ==
    (op.name = "Urn" /\ result.kind = "return") =>
      LET u == result.value IN
      /\ startswith(Urn_quote(u), SEP)
      /\ ~DoubleSeparator(Urn_quote(u))
      /\ op.flag => (endswith(Urn_quote(u), SEP) /\ is_dir(u))

\* A directory Urn built from a string with a dot segment, a run of
\* separators and no separator at either end.
C23_Witness ==
    /\ op.name = "Urn"
    /\ op.flag
    /\ op.path = <<"2", "/", ".", "/", "/", "2">>
    /\ result = Return(<<"/", "2", "/", "2", "/">>)


\* C24 as stated: a Urn constructed with directory=False from a string that
\* does not end with the separator, the empty string included, has an
\* encoded path that does not end with the separator, and is_dir() is false.
C24_Original ==
    (op.name = "Urn" /\ result.kind = "return" /\ ~op.flag /\ ~endswith(op.path, SEP)) =>
      /\ ~endswith(Urn_quote(result.value), SEP)
      /\ ~is_dir(result.value)

\* C24: the same for every string that is not empty; the Urn of the empty
\* string is the root, whose encoded path is the separator.
C24_FileForm ==
    (op.name = "Urn" /\ result.kind = "return" /\ ~op.flag /\ ~endswith(op.path, SEP)) =>
      IF op.path = <<>>
      THEN Urn_quote(result.value) = <<SEP>> /\ is_dir(result.value)
      ELSE ~endswith(Urn_quote(result.value), SEP) /\ ~is_dir(result.value)

\* A file-form Urn built from a string that ends with a dot segment cut
\* short, after a run of separators.
C24_Witness ==
    /\ op.name = "Urn"
    /\ ~op.flag
    /\ op.path = <<"2", "/", "/", ".">>
    /\ result = Return(<<"/", "2", "/", ".">>)


\* C25: the parent of every Urn ends with the separator; at nesting level 1
\* and for the root it is the separator alone; at nesting level 2 or more
\* the Urn constructed from it is one nesting level up and it is a prefix
\* of the Urn's path.
C25_ParentOneLevelUp ==
    (op.name = "Urn" /\ result.kind = "return") =>
      LET u == result.value
          nl == nesting_level(u)
      IN
      /\ endswith(parent(u), SEP)
      /\ nl <= 1 => parent(u) = <<SEP>>
      /\ nl >= 2 => /\ nesting_level(Urn(parent(u), FALSE)) = nl - 1
                    /\ startswithSeq(path(u), parent(u))


\* s without the separators that follow a separator, from index i on.
RECURSIVE Collapsed(_, _)
Collapsed(s, i) ==
    IF i > Len(s) THEN <<>>
    ELSE (IF i > 1 /\ s[i] = SEP /\ s[i - 1] = SEP THEN <<>> ELSE <<s[i]>>)
         \o Collapsed(s, i + 1)

\* A path with its runs of separators collapsed and one trailing separator
\* dropped.
Canonical(s) ==
    LET c == Collapsed(s, 1) IN
    IF endswith(c, SEP) THEN SubSeq(c, 1, Len(c) - 1) ELSE c

\* C26: compare_path(decodedPath, href) is true exactly when the path the
\* href encodes and decodedPath are equal after collapsing the consecutive
\* separators and dropping one trailing separator, whichever of the valid
\* encodings of that path the href is.
C26_ComparePathEncodings ==
    (op.name = "compare_path" /\ result.kind = "return") =>
      result.value = (Canonical(op.encodes) = Canonical(op.path))

\* The comparison is true for a partly encoded href of a path that holds a
\* percent sign and ends with a separator the compared path lacks.
C26_Witness ==
    /\ op.name = "compare_path"
    /\ op.encodes = <<"/", "%", "/">>
    /\ op.dest = <<"/", "%", "2", "5", "%", "2", "F">>
    /\ op.path = <<"/", "%">>
    /\ result = Return(TRUE)


\* C27: free on a well-formed response raises MethodNotSupported when the
\* response has no quota-available-bytes element or the element has no
\* text, and returns the integer the element's text is when it is one.
C27_FreeWellFormed ==
    (op.name = "free" /\ text.read /\ text.wellformed) =>
      LET i == FirstNamed(text.elements, 1, "quota-available-bytes") IN
      IF i = 0 \/ text.elements[i].text = "None"
      THEN result = Raise("MethodNotSupported")
      ELSE text.elements[i].text \in {"0", "7"} => result = Return(int(text.elements[i].text))

\* free has raised MethodNotSupported for an element without text that
\* follows another quota element.
C27_Witness ==
    /\ op.name = "free"
    /\ text = PropertyBody(<<[name |-> "quota-used-bytes", text |-> "7"],
                             [name |-> "quota-available-bytes", text |-> "None"]>>)
    /\ result = Raise("MethodNotSupported")

\* C28: free raises MethodNotSupported when the body of the response does
\* not parse as XML.
C28_FreeMalformed ==
    (op.name = "free" /\ text.read /\ ~text.wellformed) =>
      result = Raise("MethodNotSupported")


\* C29: the urn a Resource holds changes only in a move or rename that
\* succeeds: after a successful move(path) it is Urn(path), after a
\* successful rename(name) it is the Urn of the old parent joined with the
\* filename of name, it is as before when the Client.move they delegate to
\* raises, and copy, info, unlink, delete, exists and is_directory leave it
\* as it is, copy returning a Resource whose urn is that of the destination.
C29_LocatorFrame ==
    [][ IF resource_urn = NoHandle THEN TRUE
        ELSE IF op = NoCall /\ op'.name = "Resource.move"
        THEN resource_urn' = IF result'.kind = "return" THEN Urn(op'.path, FALSE)
                             ELSE resource_urn
        ELSE IF op = NoCall /\ op'.name = "Resource.rename"
        THEN resource_urn' =
               IF result'.kind = "return"
               THEN Urn(parent(resource_urn) \o filename(Urn(op'.path, FALSE)), FALSE)
               ELSE resource_urn
        ELSE /\ resource_urn' = resource_urn
             /\ (op = NoCall /\ op'.name = "Resource.copy" /\ result'.kind = "return")
                  => result'.value = Urn(op'.path, FALSE)
      ]_vars

\* A rename has succeeded and the handle holds another urn than before.
C29_Witness ==
    /\ op.name = "Resource.rename"
    /\ result.kind = "return"
    /\ op.held = <<"/", "x", "/", "y">>
    /\ op.path = <<"/", "x", "/", "_">>
    /\ resource_urn = <<"/", "x", "/", "_">>
    /\ wire[Len(wire)].method = "MOVE"


\* The request e of the wire failed: a transport error or an error status.
Failed(e) ==
    IF IsPreflight(e) THEN e.answer.kind # "response" ELSE e.outcome.kind = "raise"

\* The error an operation raises for the failed request e.
ErrorOf(e) == IF IsPreflight(e) THEN Raise("NoConnection") ELSE e.outcome

\* The i-th request was sent before and failed, and the j-th is the same.
ReSent(i, j) ==
    /\ i < j
    /\ Failed(wire[i])
    /\ wire[j].method = wire[i].method
    /\ wire[j].path = wire[i].path
    /\ IsRequest(wire[i]) = IsRequest(wire[j])

\* C30 as stated: no request is sent again after it failed, and a failed
\* request that is neither a MKCOL answered 405 nor a probe answered
\* not-found is the last request of the operation, which raises its error.
C30_Original ==
    \A i \in DOMAIN wire :
      LET e == wire[i] IN
      Failed(e) =>
        /\ \A j \in DOMAIN wire : ~ReSent(i, j)
        /\ \/ IsRequest(e) /\ e.method = "MKCOL" /\ e.outcome.error = "MethodNotSupported"
           \/ IsRequest(e) /\ e.method = "HEAD" /\ e.outcome.error = "RemoteResourceNotFound"
           \/ i = Len(wire) /\ result = ErrorOf(e)

\* C30: a failed request that is neither a MKCOL answered 405 nor a probe
\* that ended in RemoteResourceNotFound or ResponseErrorCode is the last
\* request of the operation, which raises its error; and no failed request
\* is sent again, but for a probe that ended in one of these two errors,
\* which a later check of the same operation may repeat.
C30_NoRetry ==
    \A i \in DOMAIN wire :
      LET e == wire[i] IN
      Failed(e) =>
        /\ \A j \in DOMAIN wire :
             ReSent(i, j) => /\ IsRequest(e)
                             /\ e.method = "HEAD"
                             /\ e.outcome.error \in {"RemoteResourceNotFound",
                                                     "ResponseErrorCode"}
        /\ \/ IsRequest(e) /\ e.method = "MKCOL" /\ e.outcome.error = "MethodNotSupported"
           \/ /\ IsRequest(e)
              /\ e.method = "HEAD"
              /\ e.outcome.error \in {"RemoteResourceNotFound", "ResponseErrorCode"}
           \/ i = Len(wire) /\ result = ErrorOf(e)

\* info went on after a probe answered 403 and ended with the error of its
\* PROPFIND, the last request.
C30_Witness ==
    /\ op.name = "info"
    /\ ~auth
    /\ Len(wire) = 3
    /\ wire[1].method = "HEAD" /\ wire[1].answer = Response(403)
    /\ wire[2].method = "HEAD" /\ wire[2].answer = Response(200)
    /\ wire[3].method = "PROPFIND" /\ wire[3].answer = Response(507)
    /\ result = Raise("NotEnoughSpace")


\* The operations that send one primary request, and its method.
Orchestrated ==
    {"list", "free", "exists", "create_directory", "is_directory", "info", "unlink",
     "delete", "move", "copy", "get_property", "set_property"}

PrimaryMethod(name) ==
    CASE name \in {"list", "free", "is_directory", "info", "get_property"} -> "PROPFIND"
      [] name = "exists" -> "HEAD"
      [] name = "create_directory" -> "MKCOL"
      [] name \in {"unlink", "delete"} -> "DELETE"
      [] name = "move" -> "MOVE"
      [] name = "copy" -> "COPY"
      [] name = "set_property" -> "PROPPATCH"

\* The requests rs end with the one primary request of the operation, and
\* those before it are existence checks or, in copy, type checks.
OnePrimary(rs) ==
    /\ rs # <<>>
    /\ rs[Len(rs)].method = PrimaryMethod(op.name)
    /\ \A i \in 1..(Len(rs) - 1) :
         \/ rs[i].method = "HEAD"
         \/ op.name = "copy" /\ rs[i].method = "PROPFIND"
    /\ op.name = "exists" => Len(rs) = 1

YieldedBefore(i) ==
    SumCurrent(SelectSeq(SubSeq(events, 1, i - 1), LAMBDA e : e.ev = "yield"))

\* C32: in upload_to with a progress callback, the call that reports the
\* count c comes only after the chunk that brings the count to c has been
\* yielded to the request body.
C32_ProgressAfterYield ==
    IsUpload =>
      \A i \in DOMAIN events :
         events[i].ev = "progress" => YieldedBefore(i) >= events[i].current


\* The requests of upload_directory in the order of the code: the probe of
\* the remote directory, `d` DELETEs of it, the probe of its parent, the MKCOL.
UploadDirectoryOrder(R, d) ==
    LET n == Len(R) IN
    /\ n >= 1
    /\ R[1].method = "HEAD"
    /\ R[1].path = UrlOf(path(Urn(op.path, TRUE)), FALSE)
    /\ n <= d + 3
    /\ (d = 1 /\ wire[Len(wire)].answer.kind = "response") => n >= 2
    /\ (d = 1 /\ n >= 2) => /\ R[2].method = "DELETE"
                            /\ R[2].path = R[1].path
    /\ n >= d + 2 => /\ R[d + 2].method = "HEAD"
                     /\ R[d + 2].path = ParentUrlOf(op.path, TRUE)
                     /\ \A i \in 1..(d + 1) : R[i].outcome.kind = "return" \/ Absent(R[i])
    /\ n = d + 3 => /\ R[n].method = "MKCOL"
                    /\ R[n].path = UrlOf(op.path, TRUE)
                    /\ Present(R[d + 2])

\* C33: once its local checks have passed, upload_directory probes the remote
\* directory, sends a DELETE of it if and only if the probe reported
\* existence, then the parent probe and the MKCOL of create_directory, and
\* turns to the children only after that; no PUT comes before the MKCOL, and
\* a DELETE or MKCOL that makes the operation fail leaves every child alone.
C33_UploadDirectoryOrder ==
    (op.name = "upload_directory" /\ Requests # <<>>
       /\ upload_directory_checks(Urn(op.path, TRUE), op.local) = "") =>
      LET R == Requests
          d == IF Present(R[1]) THEN 1 ELSE 0
          last == R[Len(R)]
      IN
      /\ UploadDirectoryOrder(R, d)
      /\ \A i \in DOMAIN R :
           /\ R[i].method = "DELETE" => (i = 2 /\ Present(R[1]))
           /\ R[i].method = "PUT" => \E j \in 1..(i - 1) : R[j].method = "MKCOL"
      /\ (last.method = "DELETE" /\ last.outcome.kind = "raise") =>
            (result = last.outcome /\ events = <<>> /\ ~Sends("MKCOL"))
      /\ (last.method = "MKCOL" /\ last.outcome.kind = "raise"
            /\ last.outcome.error # "MethodNotSupported") =>
            (result = last.outcome /\ events = <<>>)
      /\ events # <<>> => (result.kind = "return" /\ last.method = "MKCOL")

\* upload_directory has replaced an existing remote directory and has gone
\* through the entries of a local directory that holds a file.
C33_Witness ==
    /\ op.name = "upload_directory"
    /\ Len(Requests) = 4
    /\ Present(Requests[1])
    /\ Requests[2].method = "DELETE"
    /\ Requests[4].method = "MKCOL"
    /\ Requests[4].answer = Response(201)
    /\ result.kind = "return"
    /\ op.local.entries # <<>>
    /\ events # <<>>

\* upload_directory has stopped at a DELETE answered 404.
C33_WitnessAbort ==
    /\ op.name = "upload_directory"
    /\ Len(Requests) = 2
    /\ Requests[2].method = "DELETE"
    /\ Raised("RemoteResourceNotFound")
    /\ op.local.entries # <<>>
    /\ events = <<>>


\* The server has told the is_directory check of download_directory that the
\* remote path is a directory.
RemoteIsDirectory ==
    /\ Requests # <<>>
    /\ Requests[Len(Requests)].method = "PROPFIND"
    /\ Requests[Len(Requests)].outcome.kind = "return"
    /\ text.wellformed
    /\ LET urn == Urn(path(Urn(op.path, TRUE)), FALSE)
           d == parse_is_dir_response(text, get_full_path(urn), hostname_path)
       IN d.kind = "return" /\ d.value

\* C34: download_directory leaves the local path alone (nothing removed,
\* nothing created) when the remote path is not a directory, does not exist
\* or the check of its type fails; the local path is removed only after
\* is_directory has returned true.
C34_LocalUntouched ==
    op.name = "download_directory" =>
      /\ ~RemoteIsDirectory => events = <<>>
      /\ (Raised("OptionNotValid") \/ Raised("RemoteResourceNotFound")
            \/ Raised("MethodNotSupported")) => events = <<>>
      /\ \A i \in DOMAIN events : events[i] = Rmtree => (i = 1 /\ RemoteIsDirectory)

\* download_directory to an existing local directory has raised OptionNotValid
\* for a remote path that the server says is no collection.
C34_Witness ==
    /\ op.name = "download_directory"
    /\ op.local = Dir(<<>>)
    /\ Requests # <<>>
    /\ Requests[Len(Requests)].method = "PROPFIND"
    /\ text.wellformed
    /\ Raised("OptionNotValid")
    /\ events = <<>>

\* download_directory has removed an existing local directory after the
\* server said the remote path is a collection.
C34_WitnessRemoved ==
    /\ op.name = "download_directory"
    /\ op.local = Dir(<<>>)
    /\ RemoteIsDirectory
    /\ events # <<>>
    /\ events[1] = Rmtree


\* The response element r is for the path p: its href matches p as it is or
\* with the path of the hostname stripped from its front.
IsResponseFor(r, p, prefix) ==
    \/ compare_path(normalize_path(p), r.href)
    \/ /\ startswithSeq(r.href, prefix)
       /\ compare_path(normalize_path(p), SubSeq(r.href, Len(prefix) + 1, Len(r.href)))

\* What the first response element for p in the body says of its type.
Decides(content, p, prefix) ==
    LET M == {i \in DOMAIN content.responses :
                IsResponseFor(content.responses[i], p, prefix)}
    IN IF ~content.wellformed THEN Raise("MethodNotSupported")
       ELSE IF M = {} THEN Raise("RemoteResourceNotFound")
       ELSE LET first == CHOOSE i \in M : \A j \in M : i <= j IN
            IF content.responses[first].rtype = "none" THEN Raise("MethodNotSupported")
            ELSE Return(content.responses[first].rtype = "collection")

\* C35: is_directory on an existing resource sends its PROPFIND to the parent
\* of the path and decides from the first response element whose href
\* matches the path, raw or with the prefix of the server's url stripped:
\* true iff its resourcetype holds a collection, MethodNotSupported if it has
\* no resourcetype or the body does not parse, RemoteResourceNotFound if no
\* response matches.
C35_IsDirectoryDecision ==
    /\ op.name = "is_directory" =>
         /\ \A i \in DOMAIN Requests :
              Requests[i].method = "PROPFIND" =>
                 /\ i = Len(Requests)
                 /\ Requests[i].path = ParentUrlOf(op.path, FALSE)
                 /\ \E j \in 1..(i - 1) : IsHead(Requests[j]) /\ Present(Requests[j])
         /\ text.read =>
              /\ Requests[Len(Requests)].method = "PROPFIND"
              /\ result = Decides(text, get_full_path(Urn(op.path, FALSE)), hostname_path)
    /\ op.name = "parse_is_dir_response" =>
         result = Decides(text, op.path, op.dest)

\* is_directory has returned True from a body whose first element for the
\* path is a collection and whose second is not.
C35_Witness ==
    /\ op.name = "is_directory"
    /\ text.read
    /\ Len(text.responses) = 2
    /\ text.responses[1].href = text.responses[2].href
    /\ text.responses[1].rtype = "collection"
    /\ text.responses[2].rtype = "plain"
    /\ Returned(TRUE)

\* The parse has decided from an element that matches only with the prefix
\* stripped, after one that does not match.
C35_WitnessPrefix ==
    /\ op.name = "parse_is_dir_response"
    /\ op.dest = <<"/", "d">>
    /\ Len(text.responses) = 2
    /\ text.responses[1].href = <<"/", "y">>
    /\ text.responses[2].href = <<"/", "d", "/", "x", "/">>
    /\ text.responses[2].rtype = "plain"
    /\ Returned(FALSE)


\* The operation went on after the error of the request e instead of raising it.
Swallowed(i) ==
    /\ IsRequest(wire[i])
    /\ wire[i].outcome.kind = "raise"
    /\ ~(i = Len(wire) /\ result = wire[i].outcome)

C36_WitnessProbe507 ==
    /\ op.name = "copy"
    /\ Len(Probes) = 2
    /\ Probes[2].answer = Response(507)
    /\ Raised("NotEnoughSpace")


\* C37: in upload_to with a progress callback, whatever buffer_size, chunk
\* size and source length, the generator stops when a read returns no data
\* or the count reaches buffer_size, every count reported lies in
\* 0..buffer_size, and the bytes yielded never exceed buffer_size.
C37_ProducerBounds ==
    (IsUpload /\ op.flag) =>
      /\ Exhausted =>
           \/ SumCurrent(Yields) >= op.buffer_size
           \/ Len(events) >= 2 /\ events[Len(events) - 1] = Read(0)
      /\ \A i \in DOMAIN Calls :
           /\ 0 <= Calls[i].current
           /\ Calls[i].current <= op.buffer_size
      /\ SumCurrent(Yields) <= op.buffer_size


\* C38: when download_file fails a precondition, the remote path being a
\* directory or not existing, the local file system is as it was: the local
\* file has not been opened for writing, which would create or empty it.
C38_LocalFileUnchanged ==
    (op.name = "download_file" /\ ~SendsDownload
       /\ (Raised("OptionNotValid") \/ Raised("RemoteResourceNotFound"))) =>
      \A i \in DOMAIN events : events[i] # Opened


\* The resource was there when it was probed and gone when the request for
\* it came: the probes before the last request found what they looked for,
\* and the last request, with the given method, is answered 404.
RemovedBefore(method) ==
    /\ Len(Requests) >= 2
    /\ Requests[Len(Requests)].method = method
    /\ Requests[Len(Requests)].answer = Response(404)
    /\ \A i \in 1..(Len(Requests) - 1) : IsHead(Requests[i]) /\ Present(Requests[i])

\* C39: the probe and the request of an operation are separate steps.  When
\* the source is removed between the probes of move and its MOVE, the 404 of
\* the MOVE makes move raise RemoteResourceNotFound, and a Resource keeps the
\* urn it held; when the remote directory is removed between the probe of
\* upload_directory and its DELETE, upload_directory raises
\* RemoteResourceNotFound, creates no directory and uploads nothing.
C39_RemovedBetween ==
    /\ (op.name \in {"move", "Resource.move"} /\ RemovedBefore("MOVE")) =>
         /\ Raised("RemoteResourceNotFound")
         /\ Len(Requests) = 3
         /\ op.name = "Resource.move" => resource_urn = op.held
    /\ (op.name = "upload_directory" /\ RemovedBefore("DELETE")) =>
         /\ Raised("RemoteResourceNotFound")
         /\ Len(Requests) = 2
         /\ ~Sends("MKCOL")
         /\ ~Sends("PUT")
         /\ events = <<>>

\* A Resource at /x was told to move to /y, the probes found the source and
\* the parent of the destination, the MOVE was answered 404, and the handle
\* is still at /x.
C39_Witness ==
    /\ op.name = "Resource.move"
    /\ RemovedBefore("MOVE")
    /\ op.held = <<"/", "x">>
    /\ op.path = <<"/", "y">>
    /\ resource_urn = <<"/", "x">>
    /\ Raised("RemoteResourceNotFound")

\* upload_directory of a local directory with an entry has stopped at a
\* DELETE answered 404.
C39_WitnessUpload ==
    /\ op.name = "upload_directory"
    /\ RemovedBefore("DELETE")
    /\ op.local.entries # <<>>
    /\ Raised("RemoteResourceNotFound")

=============================================================================
